---- MODULE Spec2Model ----
(***************************************************************************)
(* Model of the index ancestry diagnosis / repair pipeline of              *)
(* xcp_index_diag.py: the three batch workers (DiagnoseBatch, LocateBatch, *)
(* RebuildBatch), the per-phase reader task IndexDiag with its token flow  *)
(* control, and the command runner RunIndexDiag.                           *)
(*                                                                         *)
(* A file handle is a positive integer, None is 0.  An index tuple is      *)
(* represented by the one field the code reads, its PARFH.  A mapping from *)
(* handles to index tuples (mb.ancestry, index.locatedDirs,                *)
(* index.ancestries) is a function on Handles whose value Absent marks a   *)
(* handle that is not a key.                                               *)
(***************************************************************************)
EXTENDS Integers, Sequences, FiniteSets, TLC

\* ------------------------------------------------------------------------
\* Bounds of the model
\* ------------------------------------------------------------------------
\* file handles of directories are 1..MaxHandle
MaxHandle == 3
\* most entries a multi-batch of the generic indexes holds
MaxEntries == 1

\* range(5) tokens sent at the start of every IndexDiag pass
NumTokens == 5

None == 0
Absent == -1

Handles == 1..MaxHandle
\* the three directories the scenarios name
DirNames == <<1, 2, 3>>
A == DirNames[1]
B == DirNames[2]
C == DirNames[3]
\* handle carried by file entries (never a directory, never a key)
FileFh == MaxHandle + 1
Par == Handles \cup {None}
Maps == [Handles -> Par \cup {Absent}]
EmptyMap == [h \in Handles |-> Absent]
Keys(m) == {h \in Handles : m[h] # Absent}

\* an assignment in place of dict.update
UpdateAssign(old, new) == new
\* dict.update: every key of new overrides the key of old
Update(old, new) == [h \in Handles |-> IF new[h] # Absent THEN new[h] ELSE old[h]]

\* ------------------------------------------------------------------------
\* Entries of a multi-batch (mb.files and mb.dirs)
\* ------------------------------------------------------------------------
FileEntry(p) == [fh |-> FileFh, parfh |-> p, isDir |-> FALSE, digest |-> FALSE]
DirEntry(h, p, d) == [fh |-> h, parfh |-> p, isDir |-> TRUE, digest |-> d]

\* idx.MultiBatch(index, batches): the consolidated view of one window of the
\* index; the model's index is the sequence of these views.
MultiBatch(ix, i) == ix[i]

\* ------------------------------------------------------------------------
\* DiagnoseBatch.gRun
\* ------------------------------------------------------------------------
\* The walk of lines 108-115 started at parfh: the first handle that is no
\* key of anc, None when the walk ends at a null parent.  seen is the set of
\* handles already visited; visiting one twice means the loop never ends.
Hang == -2
RECURSIVE DiagWalk(_, _, _)
DiagWalk(parfh, anc, seen) ==
    IF parfh = None THEN None
    ELSE IF anc[parfh] = Absent THEN parfh
    ELSE IF parfh \in seen THEN Hang
    ELSE DiagWalk(anc[parfh], anc, seen \cup {parfh})

DiagnoseHangs(mb) ==
    \E x \in mb.entries : DiagWalk(x.parfh, mb.ancestry, {}) = Hang

\* the option test of line 118 left out
ForcedAlways(mb, tryMissing) ==
    {x.fh : x \in {y \in mb.entries : y.isDir /\ y.digest}}
Forced(mb, tryMissing) ==
    IF tryMissing
    THEN {x.fh : x \in {y \in mb.entries : y.isDir /\ y.digest}}
    ELSE {}

\* line 111 adding the parent of the entry instead of the absent handle
DiagnoseEntryParent(mb, tryMissing) ==
    {x.parfh : x \in {y \in mb.entries :
                        DiagWalk(y.parfh, mb.ancestry, {}) \notin {None, Hang}}}
        \cup Forced(mb, tryMissing)

\* only the parent of the entry is looked up, its ancestors are not walked
DiagnoseParentOnly(mb, tryMissing) ==
    {x.parfh : x \in {y \in mb.entries :
                        y.parfh # None /\ mb.ancestry[y.parfh] = Absent}}
        \cup Forced(mb, tryMissing)
DiagnoseBatchRun(mb, tryMissing) ==
    ({DiagWalk(x.parfh, mb.ancestry, {}) : x \in mb.entries} \ {None, Hang})
        \cup Forced(mb, tryMissing)

\* ------------------------------------------------------------------------
\* fullAncestry and LocateBatch.gRun
\* ------------------------------------------------------------------------
\* fullAncestry(dfh, ancestry): found = FALSE is the return of None,
\* hang = TRUE the loop that never returns.
RECURSIVE fullAncestryFrom(_, _, _)
fullAncestryFrom(dfh, ancestry, dirs) ==
    IF ancestry[dfh] = Absent
    THEN [found |-> FALSE, hang |-> FALSE, dirs |-> EmptyMap]
    ELSE IF dirs[dfh] # Absent
    THEN [found |-> FALSE, hang |-> TRUE, dirs |-> EmptyMap]
    ELSE LET d2 == [dirs EXCEPT ![dfh] = ancestry[dfh]]
         IN  IF ancestry[dfh] = None
             THEN [found |-> TRUE, hang |-> FALSE, dirs |-> d2]
             ELSE fullAncestryFrom(ancestry[dfh], ancestry, d2)

\* the chain is followed but the root entry is not recorded
fullAncestryNoRoot(dfh, ancestry) ==
    LET r == fullAncestryFrom(dfh, ancestry, EmptyMap)
    IN  [r EXCEPT !.dirs = [h \in Handles |->
                              IF r.dirs[h] = None THEN Absent ELSE r.dirs[h]]]

\* only the handle itself is recorded, not its chain
fullAncestryOnlySelf(dfh, ancestry) ==
    IF ancestry[dfh] = Absent
    THEN [found |-> FALSE, hang |-> FALSE, dirs |-> EmptyMap]
    ELSE [found |-> TRUE, hang |-> FALSE,
          dirs |-> [EmptyMap EXCEPT ![dfh] = ancestry[dfh]]]
fullAncestry(dfh, ancestry) == fullAncestryFrom(dfh, ancestry, EmptyMap)

\* the handles the loop of line 157 does not skip
Wanted(missing, snapAnc) == {dfh \in missing : snapAnc[dfh] = Absent}

LocateHangs(mb, missing, snapAnc) ==
    \E dfh \in Wanted(missing, snapAnc) : fullAncestry(dfh, mb.ancestry).hang

\* the entry of a wanted handle kept in ancestries though its walk failed
LocateBatchPartial(mb, missing, snapAnc) ==
    LET want == Wanted(missing, snapAnc)
        got == {dfh \in want : fullAncestry(dfh, mb.ancestry).found}
        onChain == {h \in Handles :
                      \E dfh \in got : fullAncestry(dfh, mb.ancestry).dirs[h] # Absent}
    IN  [located |-> [h \in Handles |->
                        IF h \in want THEN mb.ancestry[h] ELSE Absent],
         gotAncestry |-> got,
         ancestries |-> [h \in Handles |->
                        IF h \in onChain \cup want THEN mb.ancestry[h] ELSE Absent]]

\* line 164 without the test of line 162: every wanted handle becomes a key
LocateBatchNoTest(mb, missing, snapAnc) ==
    LET want == Wanted(missing, snapAnc)
        got == {dfh \in want : fullAncestry(dfh, mb.ancestry).found}
        onChain == {h \in Handles :
                      \E dfh \in got : fullAncestry(dfh, mb.ancestry).dirs[h] # Absent}
    IN  [located |-> [h \in Handles |->
                        IF h \in want
                        THEN (IF mb.ancestry[h] = Absent THEN None ELSE mb.ancestry[h])
                        ELSE Absent],
         gotAncestry |-> got,
         ancestries |-> [h \in Handles |->
                        IF h \in onChain THEN mb.ancestry[h] ELSE Absent]]

\* line 162 without the loop over index.missingDirs: every key of the
\* multi-batch that is not skipped is located
LocateBatchAllKeys(mb, missing, snapAnc) ==
    LET want == Wanted(missing, snapAnc)
        got == {dfh \in want : fullAncestry(dfh, mb.ancestry).found}
        onChain == {h \in Handles :
                      \E dfh \in got : fullAncestry(dfh, mb.ancestry).dirs[h] # Absent}
    IN  [located |-> [h \in Handles |->
                        IF snapAnc[h] = Absent THEN mb.ancestry[h] ELSE Absent],
         gotAncestry |-> got,
         ancestries |-> [h \in Handles |->
                        IF h \in onChain THEN mb.ancestry[h] ELSE Absent]]

\* the skip of line 159 also taken for a handle already in the task's own
\* ancestries, on the chain of another handle
LocateBatchSkipsOwn(mb, missing, snapAnc) ==
    LET want == Wanted(missing, snapAnc)
        found == {dfh \in want : fullAncestry(dfh, mb.ancestry).found}
        got == {dfh \in found :
                  \A e \in found \ {dfh} :
                      fullAncestry(e, mb.ancestry).dirs[dfh] = Absent}
        onChain == {h \in Handles :
                      \E dfh \in got : fullAncestry(dfh, mb.ancestry).dirs[h] # Absent}
    IN  [located |-> [h \in Handles |->
                        IF h \in want THEN mb.ancestry[h] ELSE Absent],
         gotAncestry |-> got,
         ancestries |-> [h \in Handles |->
                        IF h \in onChain THEN mb.ancestry[h] ELSE Absent]]

\* The result triple of LocateBatch.gRun.  Every chain is read from the one
\* mapping mb.ancestry, so the order of the updates of line 170 is immaterial.
LocateBatchRun(mb, missing, snapAnc) ==
    LET want == Wanted(missing, snapAnc)
        got == {dfh \in want : fullAncestry(dfh, mb.ancestry).found}
        onChain == {h \in Handles :
                      \E dfh \in got : fullAncestry(dfh, mb.ancestry).dirs[h] # Absent}
    IN  [located |-> [h \in Handles |->
                        IF h \in want THEN mb.ancestry[h] ELSE Absent],
         gotAncestry |-> got,
         ancestries |-> [h \in Handles |->
                        IF h \in onChain THEN mb.ancestry[h] ELSE Absent]]

\* ------------------------------------------------------------------------
\* RebuildBatch.gRun
\* ------------------------------------------------------------------------
\* line 184 as an assignment: the batch's own mapping is dropped
RebuildBatchOnlyLocated(mb, snapAnc) ==
    [ancestry |-> snapAnc, entries |-> mb.entries]
\* line 184 left out
RebuildBatchNoMerge(mb, snapAnc) ==
    [ancestry |-> mb.ancestry, entries |-> mb.entries]
\* line 184 the other way round: the batch's own entries win
RebuildBatchKeepOwn(mb, snapAnc) ==
    [ancestry |-> Update(snapAnc, mb.ancestry), entries |-> mb.entries]
RebuildBatchRun(mb, snapAnc) ==
    [ancestry |-> Update(mb.ancestry, snapAnc), entries |-> mb.entries]

\* ------------------------------------------------------------------------
\* State
\* ------------------------------------------------------------------------
VARIABLES
    options,      \* command line: rebuild, replace, tryMissing
    index,        \* the multi-batches of the index being diagnosed, in order
    renamef,      \* index.renamef: the index has a renames file
    fs,           \* names of the catalog directory -> what each holds
    renamesDone,  \* the renames performed, in order
    missingDirs,  \* index.missingDirs
    locatedDirs,  \* index.locatedDirs
    gotAncestry,  \* index.gotAncestry
    ancestries,   \* index.ancestries
    phase,        \* position of RunIndexDiag.gRun
    idPc,         \* position of IndexDiag.gRun within the phase
    nextBatch,    \* next multi-batch idx.ProcessBatches will dispatch
    tokens,       \* tokens sent with myEnd.send(1) and not yet used
    running,      \* batch tasks dispatched and not finished
    tube,         \* what cfun and the reader sent and myEnd has not received
    pending,      \* rebuilt batch being appended by rw.AppendTask
    ofile,        \* records appended to the new index file
    sent,         \* number of myEnd.send(1) executed in this pass
    consumed,     \* number of results myEnd.receive() returned in this pass
    corrupt,      \* positions of the multi-batches that cannot be decoded
    failure,      \* the error the run ended with, if any
    nresume,      \* autoresume: -nresume of the command now running
    maxresumes,   \* autoresume: -maxresumes of the command now running
    launched,     \* autoresume: resume commands started by tryResume so far
    cmdPc,        \* autoresume: "running", "exited", or "none" outside it
    elapsed,      \* autoresume: cmd.task.elapsed() of the command that ended last
    evt,          \* autoresume: the FinishCommand event handled last
    longSeen,     \* autoresume: a command of the chain ran longer than a minute
    bfile,        \* bigfile: f.a.size, bs and nproc of the command, or NoFile
    workers,      \* bigfile: the Worker tasks, in the order they were created
    reads         \* bigfile: for each byte of the source, the Read1 tasks that read it

vars == <<options, index, renamef, fs, renamesDone, missingDirs, locatedDirs, gotAncestry, ancestries,
          phase, idPc, nextBatch, tokens, running, tube, pending, ofile,
          sent, consumed, corrupt, failure,
          nresume, maxresumes, launched, cmdPc, elapsed, evt, longSeen,
          bfile, workers, reads>>

config == <<options, index, renamef>>
disk == <<fs, renamesDone>>
session == <<missingDirs, locatedDirs, gotAncestry, ancestries>>
reader == <<nextBatch, tokens, running, tube>>
counts == <<sent, consumed>>
faults == <<corrupt, failure>>
resume == <<nresume, maxresumes, launched, cmdPc, elapsed, evt, longSeen>>
bigfile == <<bfile, workers, reads>>

EndOfIndex == [kind |-> "EndOfIndex"]
Trailer == [kind |-> "trailer"]
NoPending == [kind |-> "none"]
NoFailure == [kind |-> "none", batch |-> 0, op |-> <<>>]
\* no bigfile command is run
NoFile == [size |-> 0, bs |-> 0, nproc |-> 0]
\* no FinishCommand event handled yet
NoEvent == [error |-> "none", req |-> "none", onTarget |-> FALSE]

IndexName == "index"
RenamesName == "renames"
NewName == "index.new"
IndexBackup == "index.ORIG"
RenamesBackup == "renames.ORIG"
Names == {IndexName, RenamesName, NewName, IndexBackup, RenamesBackup}

\* tagd.rename(from, dirfh, to)
Rename(f, from, to) == [f EXCEPT ![to] = f[from], ![from] = "none"]

\* ------------------------------------------------------------------------
\* Initial states: the state after lines 254-268 of RunIndexDiag.gRun
\* ------------------------------------------------------------------------
Options == [rebuild : BOOLEAN, replace : BOOLEAN, tryMissing : BOOLEAN]

InitRun(indexes, configs) ==
    /\ index \in indexes
    /\ \E c \in configs : options = c.options /\ renamef = c.renamef
    /\ fs = [n \in Names |-> IF n = IndexName THEN "orig"
                             ELSE IF n = RenamesName /\ renamef THEN "renames"
                             ELSE "none"]
    /\ renamesDone = <<>>
    /\ missingDirs = {}
    /\ locatedDirs = EmptyMap
    /\ gotAncestry = {}
    /\ ancestries = EmptyMap
    /\ phase = "Start"
    /\ idPc = "idle"
    /\ nextBatch = 1
    /\ tokens = 0
    /\ running = {}
    /\ tube = <<>>
    /\ pending = NoPending
    /\ ofile = <<>>
    /\ sent = 0
    /\ consumed = 0
    /\ failure = NoFailure
    /\ nresume = 0 /\ maxresumes = 0 /\ launched = 0
    /\ cmdPc = "none" /\ elapsed = 0 /\ longSeen = FALSE
    /\ evt = NoEvent
    /\ bfile = NoFile /\ workers = <<>> /\ reads = <<>>

\* a run over an index all of whose batches can be decoded
InitWith(indexes, configs) ==
    /\ InitRun(indexes, configs)
    /\ corrupt = {}

\* ------------------------------------------------------------------------
\* IndexDiag.gRun, lines 205-222: start of a pass over the index
\* ------------------------------------------------------------------------
\* range(5) of line 221 as range(6)
StartPassExtraToken ==
    /\ idPc' = "loop"
    /\ nextBatch' = 1
    /\ tokens' = NumTokens + 1
    /\ running' = {}
    /\ tube' = <<>>
    /\ pending' = NoPending
    /\ sent' = NumTokens + 1
    /\ consumed' = 0

StartPass ==
    /\ idPc' = "loop"
    /\ nextBatch' = 1
    /\ tokens' = NumTokens
    /\ running' = {}
    /\ tube' = <<>>
    /\ pending' = NoPending
    /\ sent' = NumTokens
    /\ consumed' = 0

\* ------------------------------------------------------------------------
\* idx.ProcessBatches: the reader of the index
\* ------------------------------------------------------------------------
\* One token is consumed for each batch task started; the task is a child
\* process and so sees the session state as it is when it is started.
Dispatch ==
    /\ idPc \in {"loop", "append"}
    /\ tokens > 0
    /\ nextBatch <= Len(index)
    /\ tokens' = tokens - 1
    /\ nextBatch' = nextBatch + 1
    /\ running' = running \cup {[id |-> nextBatch, snap |-> ancestries]}
    /\ UNCHANGED <<config, faults, resume, bigfile, disk, session, phase, idPc, tube, pending, ofile, counts>>

\* After the last batch task has finished the reader signals the end.
SendEndOfIndex ==
    /\ idPc \in {"loop", "append"}
    /\ nextBatch > Len(index)
    /\ running = {}
    /\ \A k \in 1..Len(tube) : tube[k].kind # "EndOfIndex"
    /\ tube' = Append(tube, EndOfIndex)
    /\ UNCHANGED <<config, faults, resume, bigfile, disk, session, phase, idPc, nextBatch, tokens,
                   running, pending, ofile, counts>>

\* ------------------------------------------------------------------------
\* The batch tasks: gRun in the child, cfun in the parent
\* ------------------------------------------------------------------------
DiagnoseBatch(t) ==
    /\ phase = "Diagnosing"
    /\ ~DiagnoseHangs(MultiBatch(index, t.id))
    /\ tube' = Append(tube, [kind |-> "result", id |-> t.id,
                 res |-> DiagnoseBatchRun(MultiBatch(index, t.id), options.tryMissing)])

LocateBatch(t) ==
    /\ phase = "Locating"
    /\ ~LocateHangs(MultiBatch(index, t.id), missingDirs, t.snap)
    /\ tube' = Append(tube, [kind |-> "result", id |-> t.id,
                 res |-> LocateBatchRun(MultiBatch(index, t.id), missingDirs, t.snap)])

\* the located entries merged in as well (the TODO of lines 191-193)
RebuildBatchWithLocated(t) ==
    /\ phase = "Rebuilding"
    /\ tube' = Append(tube, [kind |-> "result", id |-> t.id,
                 res |-> RebuildBatchRun(MultiBatch(index, t.id),
                                         Update(locatedDirs, t.snap))])

RebuildBatch(t) ==
    /\ phase = "Rebuilding"
    /\ tube' = Append(tube, [kind |-> "result", id |-> t.id,
                 res |-> RebuildBatchRun(MultiBatch(index, t.id), t.snap)])

\* cfun with no tube to send to: the task ends and its result is dropped
BatchTaskNoSend ==
    \E t \in running :
        /\ t.id \notin corrupt
        /\ phase \in {"Diagnosing", "Locating", "Rebuilding"}
        /\ running' = running \ {t}
        /\ UNCHANGED <<config, faults, resume, bigfile, disk, session, phase, idPc, nextBatch, tokens,
                       tube, pending, ofile, counts>>

BatchTask ==
    \E t \in running :
        /\ t.id \notin corrupt
        /\ \/ DiagnoseBatch(t)
           \/ LocateBatch(t)
           \/ RebuildBatch(t)
        /\ running' = running \ {t}
        /\ UNCHANGED <<config, faults, resume, bigfile, disk, session, phase, idPc, nextBatch, tokens,
                       pending, ofile, counts>>

\* ------------------------------------------------------------------------
\* IndexDiag.gRun, lines 224-249: the result loop
\* ------------------------------------------------------------------------
\* line 238 as an assignment instead of an update
ReceiveDiagnosedAssign ==
    /\ phase = "Diagnosing" /\ idPc = "loop"
    /\ tube # <<>> /\ Head(tube).kind = "result"
    /\ missingDirs' = Head(tube).res
    /\ tube' = Tail(tube)
    /\ tokens' = tokens + 1
    /\ sent' = sent + 1
    /\ consumed' = consumed + 1
    /\ UNCHANGED <<config, faults, resume, bigfile, disk, locatedDirs, gotAncestry, ancestries, phase,
                   idPc, nextBatch, running, pending, ofile>>

\* the result folded in without the send of line 245
ReceiveDiagnosedNoToken ==
    /\ phase = "Diagnosing" /\ idPc = "loop"
    /\ tube # <<>> /\ Head(tube).kind = "result"
    /\ missingDirs' = missingDirs \cup Head(tube).res
    /\ tube' = Tail(tube)
    /\ tokens' = tokens
    /\ sent' = sent
    /\ consumed' = consumed + 1
    /\ UNCHANGED <<config, faults, resume, bigfile, disk, locatedDirs, gotAncestry, ancestries, phase,
                   idPc, nextBatch, running, pending, ofile>>

\* lines 237-238 and 245
ReceiveDiagnosed ==
    /\ phase = "Diagnosing" /\ idPc = "loop"
    /\ tube # <<>> /\ Head(tube).kind = "result"
    /\ missingDirs' = missingDirs \cup Head(tube).res
    /\ tube' = Tail(tube)
    /\ tokens' = tokens + 1
    /\ sent' = sent + 1
    /\ consumed' = consumed + 1
    /\ UNCHANGED <<config, faults, resume, bigfile, disk, locatedDirs, gotAncestry, ancestries, phase,
                   idPc, nextBatch, running, pending, ofile>>

\* the handles whose ancestry was found taken out of index.missingDirs
ReceiveLocatedPrunes ==
    /\ phase = "Locating" /\ idPc = "loop"
    /\ tube # <<>> /\ Head(tube).kind = "result"
    /\ locatedDirs' = Update(locatedDirs, Head(tube).res.located)
    /\ gotAncestry' = gotAncestry \cup Head(tube).res.gotAncestry
    /\ ancestries' = Update(ancestries, Head(tube).res.ancestries)
    /\ missingDirs' = missingDirs \ Head(tube).res.gotAncestry
    /\ tube' = Tail(tube)
    /\ tokens' = tokens + 1
    /\ sent' = sent + 1
    /\ consumed' = consumed + 1
    /\ UNCHANGED <<config, faults, resume, bigfile, disk, phase, idPc, nextBatch, running,
                   pending, ofile>>

\* line 242 as an assignment instead of an update
ReceiveLocatedAssign ==
    /\ phase = "Locating" /\ idPc = "loop"
    /\ tube # <<>> /\ Head(tube).kind = "result"
    /\ locatedDirs' = Update(locatedDirs, Head(tube).res.located)
    /\ gotAncestry' = Head(tube).res.gotAncestry
    /\ ancestries' = Update(ancestries, Head(tube).res.ancestries)
    /\ tube' = Tail(tube)
    /\ tokens' = tokens + 1
    /\ sent' = sent + 1
    /\ consumed' = consumed + 1
    /\ UNCHANGED <<config, faults, resume, bigfile, disk, missingDirs, phase, idPc, nextBatch, running,
                   pending, ofile>>

\* lines 239-243 and 245
ReceiveLocated ==
    /\ phase = "Locating" /\ idPc = "loop"
    /\ tube # <<>> /\ Head(tube).kind = "result"
    /\ locatedDirs' = Update(locatedDirs, Head(tube).res.located)
    /\ gotAncestry' = gotAncestry \cup Head(tube).res.gotAncestry
    /\ ancestries' = Update(ancestries, Head(tube).res.ancestries)
    /\ tube' = Tail(tube)
    /\ tokens' = tokens + 1
    /\ sent' = sent + 1
    /\ consumed' = consumed + 1
    /\ UNCHANGED <<config, faults, resume, bigfile, disk, missingDirs, phase, idPc, nextBatch, running,
                   pending, ofile>>

\* the ancestry of the rebuilt batch merged into index.ancestries
ReceiveRebuiltMerges ==
    /\ phase = "Rebuilding" /\ idPc = "loop"
    /\ tube # <<>> /\ Head(tube).kind = "result"
    /\ pending' = [kind |-> "batch", id |-> Head(tube).id,
                   ancestry |-> Head(tube).res.ancestry,
                   entries |-> Head(tube).res.entries]
    /\ ancestries' = Update(ancestries, Head(tube).res.ancestry)
    /\ tube' = Tail(tube)
    /\ idPc' = "append"
    /\ consumed' = consumed + 1
    /\ sent' = sent
    /\ UNCHANGED <<config, faults, resume, bigfile, disk, missingDirs, locatedDirs, gotAncestry, phase,
                   nextBatch, tokens, running, ofile>>

\* line 245 executed before the append of lines 233-236 as well
ReceiveRebuiltEarlyToken ==
    /\ phase = "Rebuilding" /\ idPc = "loop"
    /\ tube # <<>> /\ Head(tube).kind = "result"
    /\ pending' = [kind |-> "batch", id |-> Head(tube).id,
                   ancestry |-> Head(tube).res.ancestry,
                   entries |-> Head(tube).res.entries]
    /\ tube' = Tail(tube)
    /\ idPc' = "append"
    /\ consumed' = consumed + 1
    /\ tokens' = tokens + 1
    /\ sent' = sent + 1
    /\ UNCHANGED <<config, faults, resume, bigfile, disk, session, phase, nextBatch, running, ofile>>

\* lines 233-236: the encoded batch is handed to rw.AppendTask
ReceiveRebuilt ==
    /\ phase = "Rebuilding" /\ idPc = "loop"
    /\ tube # <<>> /\ Head(tube).kind = "result"
    /\ pending' = [kind |-> "batch", id |-> Head(tube).id,
                   ancestry |-> Head(tube).res.ancestry,
                   entries |-> Head(tube).res.entries]
    /\ tube' = Tail(tube)
    /\ idPc' = "append"
    /\ consumed' = consumed + 1
    /\ sent' = sent
    /\ UNCHANGED <<config, faults, resume, bigfile, disk, session, phase, nextBatch, tokens, running,
                   ofile>>

\* the append has completed; line 245
AppendDone ==
    /\ phase = "Rebuilding" /\ idPc = "append"
    /\ ofile' = Append(ofile, pending)
    /\ pending' = NoPending
    /\ tokens' = tokens + 1
    /\ idPc' = "loop"
    /\ sent' = sent + 1
    /\ consumed' = consumed
    /\ UNCHANGED <<config, faults, resume, bigfile, disk, session, phase, nextBatch, running, tube>>

\* lines 247-249 without the test of the phase
ReceiveEndOfIndexAlwaysTrailer ==
    /\ idPc = "loop"
    /\ tube # <<>> /\ Head(tube).kind = "EndOfIndex"
    /\ tube' = Tail(tube)
    /\ idPc' = "ended"
    /\ ofile' = Append(ofile, Trailer)
    /\ UNCHANGED <<config, faults, resume, bigfile, disk, session, phase, nextBatch, tokens, running,
                   pending, counts>>

\* lines 230-231 and 247-249
ReceiveEndOfIndex ==
    /\ idPc = "loop"
    /\ tube # <<>> /\ Head(tube).kind = "EndOfIndex"
    /\ tube' = Tail(tube)
    /\ idPc' = "ended"
    /\ ofile' = IF phase = "Rebuilding" THEN Append(ofile, Trailer) ELSE ofile
    /\ UNCHANGED <<config, faults, resume, bigfile, disk, session, phase, nextBatch, tokens, running,
                   pending, counts>>

\* ------------------------------------------------------------------------
\* RunIndexDiag.gRun
\* ------------------------------------------------------------------------
\* line 278
StartDiagnosing ==
    /\ phase = "Start"
    /\ phase' = "Diagnosing"
    /\ StartPass
    /\ UNCHANGED <<config, faults, resume, bigfile, disk, session, ofile>>

\* line 278 without its yield: the next pass starts while this one runs
StartLocatingEarly ==
    /\ phase = "Diagnosing" /\ idPc \in {"loop", "ended"}
    /\ phase' = "Locating"
    /\ StartPass
    /\ UNCHANGED <<config, faults, resume, bigfile, disk, session, ofile>>

\* lines 281-286
StartLocating ==
    /\ phase = "Diagnosing" /\ idPc = "ended"
    /\ phase' = "Locating"
    /\ StartPass
    /\ UNCHANGED <<config, faults, resume, bigfile, disk, session, ofile>>

\* the return of line 295 left out
SkipRebuildNoReturn ==
    /\ phase = "Locating" /\ idPc = "ended"
    /\ ~options.rebuild
    /\ phase' = "Rebuilding"
    /\ fs' = [fs EXCEPT ![NewName] = "new"]
    /\ ofile' = <<>>
    /\ StartPass
    /\ UNCHANGED <<config, faults, resume, bigfile, renamesDone, session>>

\* lines 287-295
SkipRebuild ==
    /\ phase = "Locating" /\ idPc = "ended"
    /\ ~options.rebuild
    /\ phase' = "Done"
    /\ idPc' = "idle"
    /\ UNCHANGED <<config, faults, resume, bigfile, disk, session, reader, pending, ofile, counts>>

\* line 301 creating the file under the name of the index
StartRebuildingOverIndex ==
    /\ phase = "Locating" /\ idPc = "ended"
    /\ options.rebuild
    /\ phase' = "Rebuilding"
    /\ fs' = [fs EXCEPT ![IndexName] = "new"]
    /\ ofile' = <<>>
    /\ StartPass
    /\ UNCHANGED <<config, faults, resume, bigfile, renamesDone, session>>

\* line 293 testing the replace option as well
StartRebuildingOnReplace ==
    /\ phase = "Locating" /\ idPc = "ended"
    /\ options.rebuild \/ options.replace
    /\ phase' = "Rebuilding"
    /\ fs' = [fs EXCEPT ![NewName] = "new"]
    /\ ofile' = <<>>
    /\ StartPass
    /\ UNCHANGED <<config, faults, resume, bigfile, renamesDone, session>>

\* lines 287-302: client.CreateTask makes the empty new index
StartRebuilding ==
    /\ phase = "Locating" /\ idPc = "ended"
    /\ options.rebuild
    /\ phase' = "Rebuilding"
    /\ fs' = [fs EXCEPT ![NewName] = "new"]
    /\ ofile' = <<>>
    /\ StartPass
    /\ UNCHANGED <<config, faults, resume, bigfile, renamesDone, session>>

\* lines 304-310
SkipReplace ==
    /\ phase = "Rebuilding" /\ idPc = "ended"
    /\ ~options.replace
    /\ phase' = "Done"
    /\ idPc' = "idle"
    /\ UNCHANGED <<config, faults, resume, bigfile, disk, session, reader, pending, ofile, counts>>

\* line 314 making the backup as a copy: the index keeps its name
BackupIndexCopy ==
    /\ phase = "Rebuilding" /\ idPc = "ended"
    /\ options.replace
    /\ phase' = "Replacing"
    /\ idPc' = "idle"
    /\ fs' = [fs EXCEPT ![IndexBackup] = fs[IndexName]]
    /\ renamesDone' = Append(renamesDone, <<IndexName, IndexBackup>>)
    /\ UNCHANGED <<config, faults, resume, bigfile, session, reader, pending, ofile, counts>>

\* line 322 in the place of line 314: the new index renamed first
BackupIndexOverwrite ==
    /\ phase = "Rebuilding" /\ idPc = "ended"
    /\ options.replace
    /\ phase' = "Replacing"
    /\ idPc' = "idle"
    /\ fs' = Rename(fs, NewName, IndexName)
    /\ renamesDone' = Append(renamesDone, <<NewName, IndexName>>)
    /\ UNCHANGED <<config, faults, resume, bigfile, session, reader, pending, ofile, counts>>

\* lines 304-314: the index is renamed to its backup name
BackupIndex ==
    /\ phase = "Rebuilding" /\ idPc = "ended"
    /\ options.replace
    /\ phase' = "Replacing"
    /\ idPc' = "idle"
    /\ fs' = Rename(fs, IndexName, IndexBackup)
    /\ renamesDone' = Append(renamesDone, <<IndexName, IndexBackup>>)
    /\ UNCHANGED <<config, faults, resume, bigfile, session, reader, pending, ofile, counts>>

\* lines 315-318
BackupRenames ==
    /\ phase = "Replacing"
    /\ renamef /\ Len(renamesDone) = 1
    /\ fs' = Rename(fs, RenamesName, RenamesBackup)
    /\ renamesDone' = Append(renamesDone, <<RenamesName, RenamesBackup>>)
    /\ UNCHANGED <<config, faults, resume, bigfile, session, phase, idPc, reader, pending,
                   ofile, counts>>

\* line 322 with backupName as the new name
ReplaceIndexOntoBackup ==
    /\ phase = "Replacing"
    /\ Len(renamesDone) = (IF renamef THEN 2 ELSE 1)
    /\ fs' = Rename(fs, NewName, IndexBackup)
    /\ renamesDone' = Append(renamesDone, <<NewName, IndexName>>)
    /\ phase' = "Done"
    /\ UNCHANGED <<config, faults, resume, bigfile, session, idPc, reader, pending, ofile, counts>>

\* lines 320-322
ReplaceIndex ==
    /\ phase = "Replacing"
    /\ Len(renamesDone) = (IF renamef THEN 2 ELSE 1)
    /\ fs' = Rename(fs, NewName, IndexName)
    /\ renamesDone' = Append(renamesDone, <<NewName, IndexName>>)
    /\ phase' = "Done"
    /\ UNCHANGED <<config, faults, resume, bigfile, session, idPc, reader, pending, ofile, counts>>

Next ==
    \/ StartDiagnosing
    \/ Dispatch
    \/ BatchTask
    \/ SendEndOfIndex
    \/ ReceiveDiagnosed
    \/ ReceiveLocated
    \/ ReceiveRebuilt
    \/ AppendDone
    \/ ReceiveEndOfIndex
    \/ StartLocating
    \/ SkipRebuild
    \/ StartRebuilding
    \/ SkipReplace
    \/ BackupIndex
    \/ BackupRenames
    \/ ReplaceIndex

\* ------------------------------------------------------------------------
\* The indexes and command lines the specifications draw from
\* ------------------------------------------------------------------------
\* index.renamef is read on the replace path only (line 315)
Configs ==
    {c \in [options : Options, renamef : BOOLEAN] :
        c.renamef \/ (c.options.rebuild /\ c.options.replace)}

\* The generic indexes: two multi-batches over the directories A and B.
\* The ancestry mapping of a multi-batch is any mapping of A and B in which
\* neither is its own parent; its entries are at most MaxEntries of: a file
\* in A, a file in B, the directory A in B, the directory B in A.
GenHandles == {A, B}
GenMaps ==
    {m \in Maps : \A h \in Handles :
        /\ h \notin GenHandles => m[h] = Absent
        /\ m[h] \in GenHandles \cup {None, Absent}
        /\ m[h] # h}
GenEntryPool ==
    {FileEntry(p) : p \in GenHandles}
        \cup ({DirEntry(h, p, TRUE) : h \in GenHandles, p \in GenHandles} \
                 {DirEntry(h, h, TRUE) : h \in GenHandles})
GenEntries == {e \in SUBSET GenEntryPool : Cardinality(e) <= MaxEntries}
GenBatches == [ancestry : GenMaps, entries : GenEntries]
GenIndexes == GenBatches \X GenBatches

Init == InitWith(GenIndexes, Configs)
Spec == Init /\ [][Next]_vars

\* the same indexes under the command lines without -trymissing
InitPlain == InitWith(GenIndexes, {c \in Configs : ~c.options.tryMissing})
SpecPlain == InitPlain /\ [][Next]_vars

\* ------------------------------------------------------------------------
\* The three-batch scenario
\* ------------------------------------------------------------------------
MapOf(pairs) ==
    [h \in Handles |-> IF \E q \in pairs : q[1] = h
                       THEN (CHOOSE q \in pairs : q[1] = h)[2]
                       ELSE Absent]

\* batch 1 holds A (root) and B (under A); batch 2 holds C (under B, whose
\* entry it lacks) and the file f1 under C; batch 3 holds nothing or a file
\* directly under a root it records.
ScenarioIndexes ==
    {<<[ancestry |-> MapOf({<<A, None>>, <<B, A>>}),
        entries |-> {DirEntry(A, None, TRUE), DirEntry(B, A, TRUE)}],
       [ancestry |-> MapOf({<<C, B>>}),
        entries |-> {DirEntry(C, B, TRUE), FileEntry(C)}],
       b3>> :
       b3 \in {[ancestry |-> EmptyMap, entries |-> {}],
               [ancestry |-> MapOf({<<A, None>>}), entries |-> {FileEntry(A)}]}}

InitScenario == InitWith(ScenarioIndexes, [options : Options, renamef : BOOLEAN])
SpecScenario == InitScenario /\ [][Next]_vars

\* ------------------------------------------------------------------------
\* An index with more multi-batches than tokens
\* ------------------------------------------------------------------------
\* NumTokens + 2 multi-batches, each with the root A and a file in it
FlowLen == NumTokens + 2
FlowIndexes ==
    {[i \in 1..FlowLen |->
        [ancestry |-> MapOf({<<A, None>>}), entries |-> {FileEntry(A)}]]}
FlowConfigs ==
    {c \in Configs : ~c.options.tryMissing /\ (c.options.replace => c.options.rebuild)}

InitFlow == InitWith(FlowIndexes, FlowConfigs)
SpecFlow == InitFlow /\ [][Next]_vars

\* ------------------------------------------------------------------------
\* Vocabulary of the properties
\* ------------------------------------------------------------------------
PhaseRank ==
    [p \in {"Start", "Diagnosing", "Locating", "Rebuilding", "Replacing", "Done"} |->
        CASE p = "Start" -> 0 [] p = "Diagnosing" -> 1 [] p = "Locating" -> 2
          [] p = "Rebuilding" -> 3 [] p = "Replacing" -> 4 [] p = "Done" -> 5]

\* the pass of the named phase has received EndOfIndex
Ended(p) ==
    \/ phase = p /\ idPc = "ended"
    \/ PhaseRank[phase] > PhaseRank[p] /\ (p = "Rebuilding" => options.rebuild)

\* the batch records of the new index file, in file order
RebuiltIndex == SelectSeq(ofile, LAMBDA r : r.kind = "batch")

\* What a Diagnosing pass over the index ix accumulates: the union of the
\* results of DiagnoseBatch over its multi-batches.
DiagnoseIndex(ix, tryMissing) ==
    UNION {DiagnoseBatchRun(ix[i], tryMissing) : i \in DOMAIN ix}
DiagnoseIndexHangs(ix) == \E i \in DOMAIN ix : DiagnoseHangs(ix[i])

\* h reaches a handle of parent None in m, through keys of m only
RECURSIVE ReachesRoot(_, _, _)
ReachesRoot(h, m, seen) ==
    /\ h \in Handles
    /\ m[h] # Absent
    /\ h \notin seen
    /\ \/ m[h] = None
       \/ ReachesRoot(m[h], m, seen \cup {h})

\* the keys of anc a walk started at parfh visits
RECURSIVE Visited(_, _, _)
Visited(parfh, anc, seen) ==
    IF parfh = None \/ parfh \in seen THEN seen
    ELSE IF anc[parfh] = Absent THEN seen
    ELSE Visited(anc[parfh], anc, seen \cup {parfh})

\* The pairs <<D, P>> of a multi-batch: D a directory that is a starting
\* entry or a key visited on a walk, P its parent as the multi-batch has it.
ReachableDirs(mb) ==
    {<<x.fh, x.parfh>> : x \in {y \in mb.entries : y.isDir}}
        \cup UNION {{<<d, mb.ancestry[d]>> : d \in Visited(x.parfh, mb.ancestry, {})}
                        : x \in mb.entries}

\* ------------------------------------------------------------------------
\* Properties
\* ------------------------------------------------------------------------

\* C1: in the three-batch scenario, with the force-missing test option off,
\* the Diagnosing pass ends with missingDirs = {B} and the Locating pass ends
\* with B a key of locatedDirs, gotAncestry = {B} and the keys of ancestries
\* = {A, B}.
ScenarioDiagnoseLocate ==
    ~options.tryMissing =>
        /\ Ended("Diagnosing") => missingDirs = {B}
        /\ Ended("Locating") =>
              /\ locatedDirs[B] = A
              /\ gotAncestry = {B}
              /\ Keys(ancestries) = {A, B}
              /\ ancestries[B] = A /\ ancestries[A] = None
ScenarioLocated ==
    /\ ~options.tryMissing
    /\ index \in ScenarioIndexes
    /\ phase = "Locating" /\ idPc = "ended"
    /\ gotAncestry = {B}

\* C2: in the three-batch scenario, with the force-missing test option off,
\* once the Rebuilding pass has ended the new index holds one record for each
\* multi-batch, the record of batch 2 has A and B among the keys of its
\* ancestry mapping, and a Diagnosing pass over the new index ends with no
\* missing directory.
ScenarioRebuild ==
    (~options.tryMissing /\ Ended("Rebuilding")) =>
        /\ {RebuiltIndex[k].id : k \in DOMAIN RebuiltIndex} = DOMAIN index
        /\ \A k \in DOMAIN RebuiltIndex :
              RebuiltIndex[k].id = 2 =>
                 /\ RebuiltIndex[k].ancestry[A] = None
                 /\ RebuiltIndex[k].ancestry[B] = A
                 /\ RebuiltIndex[k].ancestry[C] = B
        /\ ~DiagnoseIndexHangs(RebuiltIndex)
        /\ DiagnoseIndex(RebuiltIndex, FALSE) = {}
ScenarioRebuilt ==
    /\ ~options.tryMissing
    /\ index \in ScenarioIndexes
    /\ phase = "Rebuilding" /\ idPc = "ended"
    /\ Len(RebuiltIndex) = 3
    /\ missingDirs = {B}

\* C3: every key of the global ancestries mapping that has a parent has that
\* parent as a key too, in every state of a run.
AncestriesParentClosed ==
    \A h \in Keys(ancestries) :
        ancestries[h] # None => ancestries[h] \in Keys(ancestries)
\* results of two multi-batches that record different parents for a handle
\* have been merged, and a key of ancestries has a parent
AncestriesMergedConflict ==
    /\ phase = "Locating" /\ idPc = "ended"
    /\ \E h \in Keys(ancestries) : ancestries[h] # None
    /\ \E h \in Keys(ancestries) : \E i, j \in DOMAIN index :
          /\ fullAncestry(h, index[i].ancestry).found
          /\ fullAncestry(h, index[j].ancestry).found
          /\ index[i].ancestry[h] # index[j].ancestry[h]

\* C4: once the Locating pass has ended, the parent pointers of the global
\* ancestries mapping lead from every handle of gotAncestry to a handle of
\* parent None, through keys of ancestries only and without a cycle.
GotAncestryChainsComplete ==
    Ended("Locating") => \A h \in gotAncestry : ReachesRoot(h, ancestries, {})
\* a handle of gotAncestry whose chain in ancestries has two handles, with
\* chains merged from both multi-batches
GotAncestryLongChain ==
    /\ phase = "Locating" /\ idPc = "ended"
    /\ \E h \in gotAncestry : ancestries[h] # None
    /\ \E i, j \in DOMAIN index : \E g, h \in gotAncestry :
          /\ i # j
          /\ fullAncestry(g, index[i].ancestry).found
          /\ ~fullAncestry(g, index[j].ancestry).found
          /\ fullAncestry(h, index[j].ancestry).found

\* C5: once the Rebuilding pass has ended, a Diagnosing pass (force-missing
\* option off) over the new index terminates and every handle it reports
\* missing is in missingDirs and not in gotAncestry.
RebuildRoundTrip ==
    Ended("Rebuilding") =>
        /\ ~DiagnoseIndexHangs(RebuiltIndex)
        /\ DiagnoseIndex(RebuiltIndex, FALSE) \subseteq (missingDirs \ gotAncestry)
\* a rebuilt index in which one missing handle got its ancestry and another
\* is still missing
RebuiltPartly ==
    /\ phase = "Rebuilding" /\ idPc = "ended"
    /\ gotAncestry # {}
    /\ DiagnoseIndex(RebuiltIndex, FALSE) # {}
    /\ DiagnoseIndex(RebuiltIndex, FALSE) # DiagnoseIndex(index, FALSE)

\* C6: with the force-missing option off, the Diagnosing pass ends with
\* missingDirs equal to a function of the index alone, whatever the order in
\* which the batch tasks finished; so two passes over the same index agree.
DiagnosingIdempotent ==
    (~options.tryMissing /\ Ended("Diagnosing")) =>
        missingDirs = DiagnoseIndex(index, FALSE)
\* the two batch tasks finished against the order of dispatch, with different
\* results
DiagnosedOutOfOrder ==
    /\ ~options.tryMissing
    /\ phase = "Diagnosing"
    /\ Len(tube) = 2
    /\ tube[1].kind = "result" /\ tube[2].kind = "result"
    /\ tube[1].id > tube[2].id
    /\ tube[1].res # {} /\ tube[2].res # {} /\ tube[1].res # tube[2].res

\* C7 as stated: after Diagnosing, a reachable directory D that is not in
\* missingDirs has its parent among the keys of the mapping of the
\* multi-batch that holds D.
NotMissingHasParent ==
    Ended("Diagnosing") =>
        \A i \in DOMAIN index : \A q \in ReachableDirs(index[i]) :
            (q[1] \notin missingDirs /\ q[2] # None) =>
                index[i].ancestry[q[2]] # Absent

\* C7 amended: after Diagnosing, the parent P of a reachable directory D is
\* a key of the mapping of the multi-batch that holds D unless P is in
\* missingDirs.
ParentNotMissingIsKey ==
    Ended("Diagnosing") =>
        \A i \in DOMAIN index : \A q \in ReachableDirs(index[i]) :
            (q[2] # None /\ q[2] \notin missingDirs) =>
                index[i].ancestry[q[2]] # Absent
\* a directory reached as an ancestor on a walk whose parent is a key, in an
\* index that has a missing directory
ParentPresentOnWalk ==
    /\ phase = "Diagnosing" /\ idPc = "ended"
    /\ missingDirs # {}
    /\ \E i \in DOMAIN index : \E x \in index[i].entries :
          \E d \in Visited(x.parfh, index[i].ancestry, {}) :
             /\ <<d, index[i].ancestry[d]>> \in ReachableDirs(index[i])
             /\ index[i].ancestry[d] # None
             /\ index[i].ancestry[d] \notin missingDirs

\* every parent chain of every entry ends at a root inside its multi-batch
IndexComplete ==
    \A i \in DOMAIN index : \A x \in index[i].entries :
        ReachesRoot(x.parfh, index[i].ancestry, {}) \/ x.parfh = None

\* C8: for an index whose every entry's parent chain ends at a root inside
\* its own multi-batch (force-missing option off), Diagnosing ends with
\* missingDirs empty, Locating with locatedDirs, gotAncestry and ancestries
\* empty, and every rebuilt batch has the ancestry mapping and the entries
\* of the multi-batch it was built from.
CompleteIndexUnchanged ==
    (IndexComplete /\ ~options.tryMissing) =>
        /\ missingDirs = {}
        /\ Keys(locatedDirs) = {} /\ gotAncestry = {} /\ Keys(ancestries) = {}
        /\ \A k \in DOMAIN ofile :
              ofile[k].kind = "batch" =>
                 /\ ofile[k].ancestry = index[ofile[k].id].ancestry
                 /\ ofile[k].entries = index[ofile[k].id].entries
        /\ Ended("Rebuilding") =>
              /\ Len(RebuiltIndex) = Len(index)
              /\ {RebuiltIndex[k].id : k \in DOMAIN RebuiltIndex} = DOMAIN index
\* a complete index with a two-step chain has been rebuilt
CompleteIndexRebuilt ==
    /\ IndexComplete /\ ~options.tryMissing
    /\ phase = "Rebuilding" /\ idPc = "ended"
    /\ \E i \in DOMAIN index : \E x \in index[i].entries :
          x.parfh # None /\ index[i].ancestry[x.parfh] \notin {None, Absent}

\* a handle reported missing that is a key of no multi-batch of the index
Broken(h) ==
    /\ h \in missingDirs
    /\ \A i \in DOMAIN index : index[i].ancestry[h] = Absent

\* C9 as stated: after Locating, a missing handle found in no batch is still
\* in missingDirs and not in gotAncestry, the missing count exceeds the sum
\* of the located and ancestry-complete counts, and the run does not end as
\* a success.
BrokenScanCountsAndFails ==
    (Ended("Locating") /\ \E h \in Handles : Broken(h)) =>
        /\ \A h \in Handles : Broken(h) => h \notin gotAncestry
        /\ Cardinality(missingDirs) >
              Cardinality(Keys(locatedDirs)) + Cardinality(gotAncestry)
        /\ phase # "Done"

\* C9 amended: after Locating, a missing handle found in no batch is still
\* in missingDirs and neither in locatedDirs nor in gotAncestry, and the
\* missing count exceeds the located count and the ancestry-complete count
\* (each, not their sum).
BrokenScanStaysMissing ==
    Ended("Locating") =>
        \A h \in Handles :
            (\A i \in DOMAIN index : index[i].ancestry[h] = Absent) =>
                /\ h \notin Keys(locatedDirs) /\ h \notin gotAncestry
                /\ h \in DiagnoseIndex(index, options.tryMissing) =>
                      /\ h \in missingDirs
                      /\ Cardinality(missingDirs) > Cardinality(Keys(locatedDirs))
                      /\ Cardinality(missingDirs) > Cardinality(gotAncestry)
\* one missing handle is in no batch while another was located with its
\* full ancestry
BrokenAndRepaired ==
    /\ phase = "Done"
    /\ \E h \in Handles : Broken(h)
    /\ gotAncestry # {}

\* C10: the position of the run only moves Start -> Diagnosing -> Locating
\* -> (Rebuilding, when -rebuild is given, or Done); Rebuilding ->
\* (Replacing, when -replace is given, or Done); Replacing -> Done.
PhaseSteps ==
    {<<"Start", "Diagnosing">>, <<"Diagnosing", "Locating">>,
     <<"Locating", "Rebuilding">>, <<"Locating", "Done">>,
     <<"Rebuilding", "Replacing">>, <<"Rebuilding", "Done">>,
     <<"Replacing", "Done">>}
PhasesSequential ==
    [][/\ phase' # phase => <<phase, phase'>> \in PhaseSteps
       /\ (phase' = "Rebuilding" /\ phase # "Rebuilding") => options.rebuild
       /\ (phase' = "Replacing" /\ phase # "Replacing") => options.replace
       /\ (phase' # phase /\ phase \in {"Diagnosing", "Locating", "Rebuilding"})
             => idPc = "ended"]_vars
\* a run that went through all the phases
AllPhasesDone ==
    /\ phase = "Done"
    /\ Len(renamesDone) = 3
    /\ Len(RebuiltIndex) = Len(index)

\* ------------------------------------------------------------------------
\* The options, the replacement of the index
\* ------------------------------------------------------------------------
\* the files of the directory before the run
OrigFiles ==
    [n \in Names |-> IF n = IndexName THEN "orig"
                     ELSE IF n = RenamesName /\ renamef THEN "renames"
                     ELSE "none"]

\* C11: without -rebuild, whatever -replace says, the run never enters
\* Rebuilding or Replacing: no new index file is created, no record is
\* appended, no rename is made and the files stay as they were.
NoRebuildNoChange ==
    ~options.rebuild =>
        /\ phase \in {"Start", "Diagnosing", "Locating", "Done"}
        /\ fs = OrigFiles
        /\ ofile = <<>> /\ pending = NoPending
        /\ renamesDone = <<>>
\* a run with -replace and without -rebuild that has returned
ReplaceWithoutRebuildDone ==
    /\ phase = "Done"
    /\ ~options.rebuild /\ options.replace
    /\ consumed = Len(index)

\* the renames of lines 314-322 in their order
ReplaceRenames ==
    <<<<IndexName, IndexBackup>>>>
    \o (IF renamef THEN <<<<RenamesName, RenamesBackup>>>> ELSE <<>>)
    \o <<<<NewName, IndexName>>>>

\* every batch of the index and then the trailer are in the new index
RebuildComplete ==
    /\ Len(ofile) = Len(index) + 1
    /\ ofile[Len(ofile)] = Trailer
    /\ {ofile[k].id : k \in 1..Len(index)} = DOMAIN index

\* C12: Replacing is entered, and a rename is made, only with -replace and
\* after Rebuilding has ended with every rebuilt batch and the trailer
\* appended; the renames made are a prefix of index -> index.ORIG, renames
\* -> renames.ORIG (when there is a renames file), index.new -> index, so
\* the new index takes the name of the index only after the backup.
ReplaceOrder ==
    /\ (phase = "Replacing" \/ renamesDone # <<>>) =>
            /\ options.rebuild /\ options.replace
            /\ pending = NoPending /\ running = {} /\ tube = <<>>
            /\ RebuildComplete
    /\ Len(renamesDone) <= Len(ReplaceRenames)
    /\ renamesDone = SubSeq(ReplaceRenames, 1, Len(renamesDone))
    /\ fs[IndexName] = "new" =>
            /\ fs[IndexBackup] = "orig"
            /\ renamef => fs[RenamesBackup] = "renames"
    /\ fs[IndexName] = "none" => fs[IndexBackup] = "orig"
\* the index replaced, its renames file backed up on the way
ReplacedWithRenames ==
    /\ phase = "Done"
    /\ renamef
    /\ renamesDone = ReplaceRenames
    /\ fs[IndexName] = "new" /\ fs[NewName] = "none"

\* ------------------------------------------------------------------------
\* Token flow control
\* ------------------------------------------------------------------------
Passes == {"Diagnosing", "Locating", "Rebuilding"}
ResultsInTube == {k \in DOMAIN tube : tube[k].kind = "result"}
\* the units dispatched whose result is not yet consumed and acknowledged
InFlight ==
    Cardinality(running) + Cardinality(ResultsInTube)
        + (IF pending.kind = "batch" THEN 1 ELSE 0)

\* C13: in every state of every pass at most NumTokens units are in
\* flight, whatever the number of multi-batches of the index.
TokenCap == InFlight <= NumTokens
\* all the tokens are taken while multi-batches are still to be dispatched
TokensExhausted ==
    /\ phase \in Passes
    /\ tokens = 0 /\ InFlight = NumTokens
    /\ nextBatch <= Len(index)
    /\ Cardinality(running) = NumTokens

\* the tokens sent in one step of the run
TokenStep ==
    /\ (phase' # phase /\ phase' \in Passes) =>
            (sent' = NumTokens /\ consumed' = 0 /\ tokens' = NumTokens)
    /\ (phase' = phase /\ sent' # sent) =>
            /\ phase \in Passes
            /\ sent' = sent + 1 /\ tokens' = tokens + 1
            /\ phase = "Diagnosing" =>
                  /\ tube # <<>> /\ Head(tube).kind = "result"
                  /\ tube' = Tail(tube)
                  /\ missingDirs' = missingDirs \cup Head(tube).res
            /\ phase = "Locating" =>
                  /\ tube # <<>> /\ Head(tube).kind = "result"
                  /\ tube' = Tail(tube)
                  /\ gotAncestry' = gotAncestry \cup Head(tube).res.gotAncestry
                  /\ Head(tube).res.gotAncestry \subseteq Keys(ancestries')
            /\ phase = "Rebuilding" =>
                  /\ idPc = "append" /\ pending.kind = "batch"
                  /\ ofile' = Append(ofile, pending)
    /\ ((idPc = "ended" \/ idPc' = "ended") /\ phase' = phase) => sent' = sent

\* C14: a pass starts with exactly NumTokens tokens sent; after that a
\* token is sent only in the step that folds a result into the session
\* (Diagnosing, Locating) or that completes the append of a rebuilt batch
\* (Rebuilding), one token a result; no token is sent with or after
\* EndOfIndex; so the tokens sent are NumTokens plus the results consumed
\* (less the one whose append is under way), and the tokens the reader
\* holds are the tokens sent less the units dispatched.
TokenAccounting ==
    /\ [](phase \in Passes =>
            /\ sent = NumTokens + consumed - (IF idPc = "append" THEN 1 ELSE 0)
            /\ tokens = sent - (nextBatch - 1)
            /\ (idPc = "ended" => sent = NumTokens + Len(index)))
    /\ [][TokenStep]_vars
\* a Rebuilding pass over more multi-batches than tokens has ended
RebuildingTokensSent ==
    /\ phase = "Rebuilding" /\ idPc = "ended"
    /\ Len(index) > NumTokens
    /\ sent = NumTokens + Len(index) /\ consumed = Len(index)

\* ------------------------------------------------------------------------
\* The order of the results
\* ------------------------------------------------------------------------
\* What a Locating pass accumulates when the multi-batches 1..k are handled
\* one at a time in index order, each dispatched after the result of the
\* one before it was folded.
RECURSIVE LocateInOrder(_)
LocateInOrder(k) ==
    IF k = 0
    THEN [located |-> EmptyMap, gotAncestry |-> {}, ancestries |-> EmptyMap]
    ELSE LET prev == LocateInOrder(k - 1)
             r == LocateBatchRun(index[k], missingDirs, prev.ancestries)
         IN  [located |-> Update(prev.located, r.located),
              gotAncestry |-> prev.gotAncestry \cup r.gotAncestry,
              ancestries |-> Update(prev.ancestries, r.ancestries)]

\* no two multi-batches record different entries for one handle
Consistent ==
    \A i, j \in DOMAIN index : \A h \in Handles :
        (index[i].ancestry[h] # Absent /\ index[j].ancestry[h] # Absent)
            => index[i].ancestry[h] = index[j].ancestry[h]

\* C15 as stated: at the end of a pass the session state is the one of the
\* index-order run, for every order of completion and consumption, also
\* when multi-batches record different entries for one handle.
OrderIndependent ==
    /\ Ended("Diagnosing") => missingDirs = DiagnoseIndex(index, options.tryMissing)
    /\ (phase = "Locating" /\ idPc = "ended") =>
            /\ locatedDirs = LocateInOrder(Len(index)).located
            /\ gotAncestry = LocateInOrder(Len(index)).gotAncestry
            /\ ancestries = LocateInOrder(Len(index)).ancestries

\* C15: missingDirs after Diagnosing, and gotAncestry and the keys of
\* locatedDirs after Locating, are the same for every order of completion
\* and consumption; locatedDirs and ancestries are the same for every
\* order when no two multi-batches record different entries for one
\* handle.
OrderIndependentParts ==
    /\ Ended("Diagnosing") => missingDirs = DiagnoseIndex(index, options.tryMissing)
    /\ (phase = "Locating" /\ idPc = "ended") =>
            /\ gotAncestry =
                  {h \in missingDirs :
                     \E i \in DOMAIN index : fullAncestry(h, index[i].ancestry).found}
            /\ Keys(locatedDirs) =
                  {h \in missingDirs :
                     \E i \in DOMAIN index : index[i].ancestry[h] # Absent}
            /\ Consistent =>
                  /\ locatedDirs = LocateInOrder(Len(index)).located
                  /\ ancestries = LocateInOrder(Len(index)).ancestries
\* a Locating pass whose outcome is not the one of the index-order run
OrderMattered ==
    /\ phase = "Locating" /\ idPc = "ended"
    /\ gotAncestry # {}
    /\ locatedDirs # LocateInOrder(Len(index)).located
    /\ Keys(ancestries) # Keys(LocateInOrder(Len(index)).ancestries)

\* ------------------------------------------------------------------------
\* Ordering of the phases
\* ------------------------------------------------------------------------
\* a step that hands a multi-batch to a new batch task
Dispatched == Cardinality(running') > Cardinality(running)

PhaseOrderStep ==
    /\ Dispatched =>
            /\ phase' = phase /\ phase \in Passes
            /\ idPc \in {"loop", "append"}
            /\ \A t \in running' \ running : t.snap = ancestries
    /\ (phase \in Passes /\ phase' # phase) =>
            /\ idPc = "ended"
            /\ running = {} /\ tube = <<>> /\ pending = NoPending
            /\ nextBatch = Len(index) + 1 /\ consumed = Len(index)

\* C16: a batch task is dispatched only inside the result loop of the
\* current pass, and the run leaves a pass only after its orchestrator has
\* received EndOfIndex with nothing of the pass in flight; so the tasks of
\* Locating see the complete missingDirs of Diagnosing, and the state the
\* tasks of Rebuilding were started with is the final ancestries of
\* Locating.
PhaseOrdering ==
    /\ [][PhaseOrderStep]_vars
    /\ []((phase \in Passes /\ idPc = "ended") =>
              (running = {} /\ tube = <<>> /\ pending = NoPending))
    /\ [](phase = "Locating" =>
              missingDirs = DiagnoseIndex(index, options.tryMissing))
    /\ [](phase = "Rebuilding" =>
              /\ \A t \in running : t.snap = ancestries
              /\ ancestries = LocateInOrder(Len(index)).ancestries
                    \/ ~Consistent)
\* batch tasks of Rebuilding running with the ancestries Locating found
RebuildingOnLocated ==
    /\ phase = "Rebuilding"
    /\ Cardinality(running) = Len(index)
    /\ gotAncestry # {}
    /\ \E t \in running : t.snap # EmptyMap

\* ------------------------------------------------------------------------
\* What a pass may change
\* ------------------------------------------------------------------------
\* the orchestrator takes the result at the head of the tube
ConsumesResult ==
    /\ tube # <<>> /\ Head(tube).kind = "result"
    /\ tube' = Tail(tube)

\* C17: during Locating no step changes missingDirs (nor the index); the
\* session changes only where the orchestrator folds a result, and then
\* only in locatedDirs, gotAncestry and ancestries; a batch task changes
\* nothing of it.
LocatingKeepsMissing ==
    [][phase = "Locating" =>
          /\ missingDirs' = missingDirs /\ index' = index
          /\ session' # session => (ConsumesResult /\ running' = running)]_vars
\* Locating has added to the session while handles are missing
LocatingFolded ==
    /\ phase = "Locating"
    /\ consumed >= 1
    /\ gotAncestry # {} /\ Keys(ancestries) # {}
    /\ gotAncestry \subseteq missingDirs

\* C18: during Rebuilding no step changes ancestries, missingDirs,
\* locatedDirs or gotAncestry (nor the index: a batch task overlays
\* ancestries on its own copy of the mapping); all the orchestrator does
\* is append one record at the end of the new index file.
RebuildingKeepsSession ==
    [][phase = "Rebuilding" =>
          /\ UNCHANGED <<missingDirs, locatedDirs, gotAncestry, ancestries>>
          /\ index' = index
          /\ ofile' # ofile =>
                /\ Len(ofile') = Len(ofile) + 1
                /\ SubSeq(ofile', 1, Len(ofile)) = ofile
          /\ phase' = "Rebuilding" => fs' = fs]_vars
\* a rebuilt record in the new index differs from its multi-batch by the
\* ancestries overlaid on it
RebuiltOverlaid ==
    /\ phase = "Rebuilding"
    /\ \E k \in DOMAIN ofile :
          /\ ofile[k].kind = "batch"
          /\ ofile[k].ancestry # index[ofile[k].id].ancestry
          /\ ofile[k].ancestry = Update(index[ofile[k].id].ancestry, ancestries)

\* ------------------------------------------------------------------------
\* The new index file
\* ------------------------------------------------------------------------
\* What the code does: the rebuilt records are appended in the order in
\* which the orchestrator takes the results from the tube, that is the
\* order in which the batch tasks finish; each result taken becomes the
\* record appended next, at the end of the file, before another is taken.
AppendedInConsumptionOrder ==
    /\ [][phase = "Rebuilding" =>
            /\ ConsumesResult =>
                  /\ pending = NoPending
                  /\ pending' = [kind |-> "batch", id |-> Head(tube).id,
                                 ancestry |-> Head(tube).res.ancestry,
                                 entries |-> Head(tube).res.entries]
                  /\ ofile' = ofile
            /\ pending.kind = "batch" =>
                  /\ ~ConsumesResult
                  /\ (ofile' = ofile /\ pending' = pending)
                       \/ (ofile' = Append(ofile, pending) /\ pending' = NoPending)]_vars
    /\ [](phase = "Rebuilding" =>
            /\ Len(RebuiltIndex) + (IF pending.kind = "batch" THEN 1 ELSE 0)
                  = consumed
            /\ \A k, l \in DOMAIN RebuiltIndex :
                  k # l => RebuiltIndex[k].id # RebuiltIndex[l].id)

\* C19: the rebuilt records are in the new index file in index order: for
\* multi-batches i < j the record rebuilt from i precedes the record
\* rebuilt from j, also when the batch task of j finishes first.
AppendedInIndexOrder ==
    \A k, l \in DOMAIN RebuiltIndex :
        k < l => RebuiltIndex[k].id < RebuiltIndex[l].id
\* the new index closed with the record of a later multi-batch before the
\* record of an earlier one
AppendedOutOfIndexOrder ==
    /\ phase = "Rebuilding" /\ idPc = "ended"
    /\ \E k, l \in DOMAIN RebuiltIndex :
          k < l /\ RebuiltIndex[k].id > RebuiltIndex[l].id

\* C20: when Rebuilding has ended the new index holds one rebuilt record
\* for each multi-batch of the index and then one trailer, its last
\* record; a trailer is nowhere else, and Diagnosing and Locating append
\* nothing.
NewIndexShape ==
    /\ phase \in {"Start", "Diagnosing", "Locating"} => ofile = <<>>
    /\ \A k \in DOMAIN ofile :
          ofile[k].kind = "trailer" => (k = Len(ofile) /\ Ended("Rebuilding"))
    /\ (options.rebuild /\ Ended("Rebuilding")) =>
          /\ Len(ofile) = Len(index) + 1
          /\ ofile[Len(ofile)].kind = "trailer"
          /\ \A k \in 1..Len(index) : ofile[k].kind = "batch"
          /\ \A i \in DOMAIN index :
                Cardinality({k \in 1..Len(index) : ofile[k].id = i}) = 1
\* Rebuilding has just ended on the trailer
RebuildingClosed ==
    /\ phase = "Rebuilding" /\ idPc = "ended"
    /\ Len(ofile) > 2
    /\ ofile[Len(ofile)] = Trailer
    /\ ofile[Len(ofile) - 1].kind = "batch"

\* ------------------------------------------------------------------------
\* Runs that fail
\* ------------------------------------------------------------------------
\* A batch of the index file becomes undecodable (the file is damaged on
\* disk); it may happen before the run or between two of its passes.
IndexDamaged ==
    /\ corrupt = {}
    /\ phase \in {"Start", "Diagnosing", "Locating", "Rebuilding"}
    /\ \E i \in DOMAIN index : corrupt' = {i}
    /\ UNCHANGED <<config, failure, resume, bigfile, disk, session, phase, idPc, reader,
                   pending, ofile, counts>>

\* idx.MultiBatch (lines 105, 154, 179) cannot decode a batch of the
\* multi-batch the task was given: the error ends the pass and the run.
\* What is in flight and what is in the new index file stays as it is.
DecodeFails ==
    \E t \in running :
        /\ t.id \in corrupt
        /\ phase \in Passes /\ idPc \in {"loop", "append"}
        /\ running' = running \ {t}
        /\ phase' = "Failed"
        /\ idPc' = "idle"
        /\ failure' = [kind |-> "CorruptBatch", batch |-> t.id, op |-> <<>>]
        /\ UNCHANGED <<config, corrupt, resume, bigfile, disk, session, nextBatch, tokens,
                       tube, pending, ofile, counts>>

\* the rename that lines 314-322 make next
NextRename == ReplaceRenames[Len(renamesDone) + 1]

\* The rename yielded at line 314, 318 or 322 fails: its error ends the
\* run, the renames made before it stay made.
RenameFails ==
    /\ \/ phase = "Rebuilding" /\ idPc = "ended" /\ options.replace
       \/ phase = "Replacing"
    /\ phase' = "Failed"
    /\ idPc' = "idle"
    /\ failure' = [kind |-> "rename", batch |-> 0, op |-> NextRename]
    /\ UNCHANGED <<config, corrupt, resume, bigfile, disk, session, reader, pending,
                   ofile, counts>>

NextFaults ==
    \/ Next
    \/ IndexDamaged
    \/ DecodeFails
    \/ RenameFails

\* the scenario indexes, every batch decodable when the run starts
InitFaults == InitWith(ScenarioIndexes, [options : Options, renamef : BOOLEAN])
SpecFaults == InitFaults /\ [][NextFaults]_vars

\* ------------------------------------------------------------------------
\* The files of the catalog
\* ------------------------------------------------------------------------
\* C21: in every state of Diagnosing, Locating and Rebuilding the index and
\* its renames file are under their names with their content, and nothing
\* is under a backup name; a step changes what the two names hold only by
\* making one of the renames of lines 314-322.
OriginalsReadOnly ==
    /\ [](phase \in {"Start", "Diagnosing", "Locating", "Rebuilding"} =>
            /\ fs[IndexName] = "orig"
            /\ fs[RenamesName] = OrigFiles[RenamesName]
            /\ fs[IndexBackup] = "none" /\ fs[RenamesBackup] = "none")
    /\ [][(fs'[IndexName] # fs[IndexName] \/ fs'[RenamesName] # fs[RenamesName]) =>
            /\ renamesDone' = Append(renamesDone, NextRename)
            /\ fs' = Rename(fs, NextRename[1], NextRename[2])
            /\ phase' \in {"Replacing", "Done"}
            /\ options.rebuild /\ options.replace]_vars
\* Rebuilding has written the whole new index beside the untouched files
RebuiltBesideOriginals ==
    /\ phase = "Rebuilding" /\ idPc = "ended"
    /\ renamef
    /\ fs[NewName] = "new" /\ RebuildComplete
    /\ fs[IndexName] = "orig" /\ fs[RenamesName] = "renames"

\* ------------------------------------------------------------------------
\* Errors
\* ------------------------------------------------------------------------
\* C22: when a batch cannot be decoded, in whatever pass, the run has
\* ended failed, no new index file is left in the catalog, written or
\* renamed onto the index, and the index and its renames file are as they
\* were.
CorruptLeavesNothing ==
    failure.kind = "CorruptBatch" =>
        /\ phase = "Failed" /\ idPc = "idle"
        /\ fs = OrigFiles
        /\ renamesDone = <<>>
\* the run failed on a corrupt batch in Rebuilding, after records of other
\* batches were appended to the new index file
CorruptInRebuilding ==
    /\ phase = "Failed" /\ failure.kind = "CorruptBatch"
    /\ fs[NewName] = "new"
    /\ RebuiltIndex # <<>>
    /\ fs[IndexName] = "orig"

\* the renames the error value of a failed rename names
RenamesNamed(f) == IF f.kind = "rename" THEN {f.op} ELSE {}

\* C23: when a rename of the Replacing sequence fails after an earlier one
\* succeeded, the run ends failed with an error that names the rename that
\* failed and the renames that succeeded, and no later rename is made.
RenameFailureNamesBoth ==
    (failure.kind = "rename" /\ renamesDone # <<>>) =>
        /\ phase = "Failed"
        /\ failure.op = NextRename
        /\ renamesDone = SubSeq(ReplaceRenames, 1, Len(renamesDone))
        /\ \A k \in DOMAIN renamesDone :
              renamesDone[k] \in RenamesNamed(failure)
\* the second or third rename failed after the index was renamed aside
ReplaceFailedPartway ==
    /\ phase = "Failed" /\ failure.kind = "rename"
    /\ renamesDone # <<>>
    /\ fs[IndexName] = "none" /\ fs[IndexBackup] = "orig"

\* ------------------------------------------------------------------------
\* The replacement of the index
\* ------------------------------------------------------------------------
\* C24 as stated: in a run with -rebuild and -replace the name of the index
\* holds the complete original index or the complete rebuilt index in
\* every state, also between two renames; it is never absent.
IndexNameAlwaysResolves ==
    (options.rebuild /\ options.replace) =>
        /\ fs[IndexName] \in {"orig", "new"}
        /\ fs[IndexName] = "new" => RebuildComplete

\* C24: in a run with -rebuild and -replace the name of the index holds
\* the complete original index until the first rename, nothing from the
\* rename of the index to its backup name until the rename of the new
\* index onto it, and the complete rebuilt index after that; it never
\* holds a partly written index.
IndexNameByRenames ==
    (options.rebuild /\ options.replace) =>
        /\ renamesDone = <<>> => fs[IndexName] = "orig"
        /\ (renamesDone # <<>> /\ renamesDone # ReplaceRenames) =>
              (fs[IndexName] = "none" /\ fs[IndexBackup] = "orig")
        /\ renamesDone = ReplaceRenames =>
              (fs[IndexName] = "new" /\ RebuildComplete)
\* between the renames no file has the name of the index
IndexNameAbsent ==
    /\ phase = "Replacing"
    /\ fs[IndexName] = "none"
    /\ fs[IndexBackup] = "orig" /\ fs[NewName] = "new"

\* C25: whatever prefix of the renames has been made when the run stops,
\* the original index is whole under its name or its backup name (and so
\* is the renames file), and the rebuilt index is complete under its
\* temporary name or the name of the index; each content is under exactly
\* one name.
ReplacingRecoverable ==
    /\ Cardinality({n \in {IndexName, IndexBackup} : fs[n] = "orig"}) = 1
    /\ \A n \in Names : fs[n] = "orig" => n \in {IndexName, IndexBackup}
    /\ renamef =>
          Cardinality({n \in {RenamesName, RenamesBackup} : fs[n] = "renames"}) = 1
    /\ (phase = "Replacing" \/ renamesDone # <<>>) =>
          /\ Cardinality({n \in {NewName, IndexName} : fs[n] = "new"}) = 1
          /\ RebuildComplete
\* the run stopped on the last rename, the two backups made
StoppedBeforeLastRename ==
    /\ phase = "Failed"
    /\ renamef /\ Len(renamesDone) = 2
    /\ fs[RenamesBackup] = "renames"
    /\ failure.op = <<NewName, IndexName>>

\* ------------------------------------------------------------------------
\* The three batch tasks
\* ------------------------------------------------------------------------
\* The walks through a mapping anc that start at the handle start: the
\* sequences of handles in which each handle is the parent anc records for
\* the one before it.
RECURSIVE PathsOfLen(_, _, _)
PathsOfLen(start, anc, n) ==
    IF n = 1
    THEN {<<h>> : h \in {start} \cap Handles}
    ELSE {Append(p, anc[p[Len(p)]]) :
             p \in {q \in PathsOfLen(start, anc, n - 1) :
                        anc[q[Len(q)]] \in Handles}}
PathsFrom(start, anc) ==
    UNION {PathsOfLen(start, anc, n) : n \in 1..MaxHandle}
\* the handles no key of anc that a walk from start arrives at
Holes(start, anc) ==
    {p[Len(p)] : p \in {q \in PathsFrom(start, anc) : anc[q[Len(q)]] = Absent}}
\* the handles on a walk from start that ends at a handle of parent None
ChainToRoot(start, anc) ==
    UNION {{p[i] : i \in 1..Len(p)} :
             p \in {q \in PathsFrom(start, anc) : anc[q[Len(q)]] = None}}

ResultsOfPass(p) ==
    IF phase = p THEN {tube[k] : k \in ResultsInTube} ELSE {}

\* C26: without -trymissing the result of a Diagnosing task is, for each
\* entry of its multi-batch, at most one handle: the first handle on the
\* walk from the entry's parent that is no key of the mapping; an entry
\* whose walk ends at a parent None adds nothing, and no key of the
\* mapping is ever in the result.
DiagnoseFirstHole ==
    ~options.tryMissing =>
        \A r \in ResultsOfPass("Diagnosing") :
            LET mb == MultiBatch(index, r.id)
            IN  /\ r.res = UNION {Holes(x.parfh, mb.ancestry) : x \in mb.entries}
                /\ \A x \in mb.entries :
                      /\ Cardinality(Holes(x.parfh, mb.ancestry)) <= 1
                      /\ ChainToRoot(x.parfh, mb.ancestry) # {} =>
                            Holes(x.parfh, mb.ancestry) = {}
                /\ \A h \in r.res : mb.ancestry[h] = Absent
                /\ Cardinality(r.res) <= Cardinality(mb.entries)
\* a result with a handle found above the parent of the entry
HoleAboveParent ==
    /\ ~options.tryMissing
    /\ \E r \in ResultsOfPass("Diagnosing") :
          \E x \in MultiBatch(index, r.id).entries :
              /\ MultiBatch(index, r.id).ancestry[x.parfh] \in Handles
              /\ r.res = {MultiBatch(index, r.id).ancestry[x.parfh]}

\* what C27 says of the result r of a Locating task started with the
\* global ancestries snap on the multi-batch mb
LocateResultRight(r, mb, snap) ==
    LET want == {h \in missingDirs : snap[h] = Absent}
        got == {h \in want : ChainToRoot(h, mb.ancestry) # {}}
    IN  /\ \A h \in Handles :
              r.located[h] = (IF h \in want THEN mb.ancestry[h] ELSE Absent)
        /\ r.gotAncestry = got
        /\ Keys(r.ancestries) = UNION {ChainToRoot(h, mb.ancestry) : h \in got}
        /\ \A h \in Keys(r.ancestries) : r.ancestries[h] = mb.ancestry[h]

\* C27: for each missing handle h that is no key of the global ancestries
\* when the Locating task is started, h is in located iff it is a key of
\* the multi-batch's mapping, h is in gotAncestry, with every handle of
\* its chain in ancestries, iff the walk from h reaches a parent None
\* through keys of that mapping only; a walk that meets an absent handle
\* adds nothing to ancestries, and the handles already keys of the global
\* ancestries add nothing at all.
LocateByBatchOnly ==
    [][(phase = "Locating" /\ Len(tube') = Len(tube) + 1
           /\ tube'[Len(tube')].kind = "result") =>
          \A t \in running \ running' :
              LocateResultRight(tube'[Len(tube')].res,
                                MultiBatch(index, t.id), t.snap)]_vars
\* a result in which a handle is located without its ancestry, and another
\* result with a full ancestry
LocatedWithoutAncestry ==
    /\ \E r \in ResultsOfPass("Locating") :
          \E h \in Keys(r.res.located) : h \notin r.res.gotAncestry
    /\ \E r \in ResultsOfPass("Locating") : r.res.gotAncestry # {}

\* the records rebuilt so far: in the tube, being appended, in the file
RebuiltRecords ==
    {[id |-> r.id, ancestry |-> r.res.ancestry, entries |-> r.res.entries] :
        r \in ResultsOfPass("Rebuilding")}
    \cup {[id |-> r.id, ancestry |-> r.ancestry, entries |-> r.entries] :
             r \in {q \in {pending} : q.kind = "batch"}}
    \cup {[id |-> ofile[k].id, ancestry |-> ofile[k].ancestry,
           entries |-> ofile[k].entries] :
             k \in {j \in DOMAIN ofile : ofile[j].kind = "batch"}}

\* C28: the mapping of a rebuilt batch is the mapping of its multi-batch
\* overlaid with the whole of ancestries: a handle that is a key of
\* ancestries has the entry of ancestries, any other handle the entry of
\* the multi-batch, and the keys are the keys of both; the entries of the
\* rebuilt batch are those of the multi-batch.
RebuildOverlay ==
    phase = "Rebuilding" =>
        \A r \in RebuiltRecords :
            LET mb == MultiBatch(index, r.id)
            IN  /\ \A h \in Handles :
                      r.ancestry[h] = (IF ancestries[h] # Absent
                                       THEN ancestries[h] ELSE mb.ancestry[h])
                /\ Keys(r.ancestry) = Keys(mb.ancestry) \cup Keys(ancestries)
                /\ r.entries = mb.entries
\* a rebuilt record in which the entry of ancestries replaced another entry
\* of the multi-batch and a handle of the multi-batch alone was kept
OverlaidOnConflict ==
    /\ phase = "Rebuilding"
    /\ \E r \in RebuiltRecords : \E h, g \in Handles :
          /\ ancestries[h] # Absent
          /\ MultiBatch(index, r.id).ancestry[h] \notin {Absent, ancestries[h]}
          /\ r.ancestry[h] = ancestries[h]
          /\ ancestries[g] = Absent /\ r.ancestry[g] # Absent

\* ------------------------------------------------------------------------
\* Handles that stay missing
\* ------------------------------------------------------------------------
Unresolved == missingDirs \ gotAncestry

\* C29: a handle that stays in missingDirs without being in gotAncestry
\* is no error: the run has no failure, Rebuilding starts when -rebuild is
\* given and the renames start when -replace is given; and in the new
\* index the handle is still no key of the mapping of any rebuilt batch
\* whose multi-batch did not have it.
BestEffortRepair ==
    Unresolved # {} =>
        /\ failure = NoFailure /\ phase # "Failed"
        /\ (phase = "Locating" /\ idPc = "ended" /\ options.rebuild) =>
              ENABLED StartRebuilding
        /\ (phase = "Rebuilding" /\ idPc = "ended" /\ options.replace) =>
              ENABLED BackupIndex
        /\ phase \in {"Rebuilding", "Replacing", "Done"} =>
              \A k \in DOMAIN ofile : \A h \in Unresolved :
                  (ofile[k].kind = "batch" /\ index[ofile[k].id].ancestry[h] = Absent)
                      => ofile[k].ancestry[h] = Absent
\* the index was replaced by one in which a handle that was located
\* without its ancestry is still absent from a batch
ReplacedStillIncomplete ==
    /\ phase = "Done" /\ renamesDone = ReplaceRenames
    /\ \E h \in Unresolved :
          /\ locatedDirs[h] # Absent
          /\ \E k \in DOMAIN ofile :
                ofile[k].kind = "batch" /\ ofile[k].ancestry[h] = Absent

\* ------------------------------------------------------------------------
\* autoresume.py: the chain of resume commands started by tryResume
\* ------------------------------------------------------------------------
\* default of -maxresumes
DefaultMaxResumes == 3
\* seconds after which a resume counts as having made progress
LongRun == 60
\* resumes a chain is followed for
MaxLaunched == 6

\* running times of a command: under, at and over the minute
Elapsed == {LongRun - 1, LongRun, LongRun + 1}

\* lines 139-144: the resume number tryResume goes on with
CurResume(n, el) == IF n # 0 /\ el > LongRun THEN 0 ELSE n

\* lines 42-47
modops == {"SETATTR", "WRITE", "CREATE", "MKDIR", "SYMLINK", "MKNOD",
           "REMOVE", "RMDIR", "LINK", "RENAME", "COMMIT"}
\* The FinishCommand events: the error of the command, or none; for an
\* error its second word, the request, and whether the directory named in
\* a LOOKUP error starts with the target of the command (line 131).
Events ==
    {NoEvent}
      \cup [error : {"EStale", "ENoent", "EIO"},
            req : modops \cup {"LOOKUP", "READ", "GETATTR"},
            onTarget : BOOLEAN]

\* line 78
Considered(e) == e.error \in {"EStale", "ENoent"}

\* lines 134-136 left out: any error on a modification request passes
GateAnyError(e) ==
    IF e.req \notin modops /\ e.req # "LOOKUP" THEN FALSE
    ELSE IF e.req = "LOOKUP" THEN e.onTarget
    ELSE TRUE
\* lines 123-136: FALSE is one of the three returns
Gate(e) ==
    IF e.req \notin modops /\ e.req # "LOOKUP" THEN FALSE
    ELSE IF e.req = "LOOKUP" THEN e.onTarget
    ELSE e.error = "EStale"

\* the command ends without an error that tryResume resumes on: line 78
\* false, or one of the returns of lines 123-136
NoResume ==
    /\ cmdPc = "running"
    /\ \E e \in Events :
          /\ ~(Considered(e) /\ Gate(e))
          /\ evt' = e
    /\ \E el \in Elapsed :
          /\ elapsed' = el
          /\ longSeen' = (longSeen \/ el > LongRun)
    /\ cmdPc' = "exited"
    /\ UNCHANGED <<nresume, maxresumes, launched>>

\* lines 146-148
NoMoreRetries ==
    /\ cmdPc = "running"
    /\ \E e \in Events :
          /\ Considered(e) /\ Gate(e)
          /\ evt' = e
    /\ \E el \in Elapsed :
          /\ CurResume(nresume, el) >= maxresumes
          /\ elapsed' = el
          /\ longSeen' = (longSeen \/ el > LongRun)
    /\ cmdPc' = "exited"
    /\ UNCHANGED <<nresume, maxresumes, launched>>

\* line 146 with > in the place of >=
LaunchResumeOnceMore ==
    /\ cmdPc = "running"
    /\ launched < MaxLaunched
    /\ \E e \in Events :
          /\ Considered(e) /\ Gate(e)
          /\ evt' = e
    /\ \E el \in Elapsed :
          /\ ~(CurResume(nresume, el) > maxresumes)
          /\ nresume' = CurResume(nresume, el) + 1
          /\ elapsed' = el
          /\ longSeen' = (longSeen \/ el > LongRun)
    /\ launched' = launched + 1
    /\ UNCHANGED <<maxresumes, cmdPc>>

\* lines 150-160: the resume command is started with -nresume and
\* -maxresumes and is the command running from now on
LaunchResume ==
    /\ cmdPc = "running"
    /\ launched < MaxLaunched
    /\ \E e \in Events :
          /\ Considered(e) /\ Gate(e)
          /\ evt' = e
    /\ \E el \in Elapsed :
          /\ ~(CurResume(nresume, el) >= maxresumes)
          /\ nresume' = CurResume(nresume, el) + 1
          /\ elapsed' = el
          /\ longSeen' = (longSeen \/ el > LongRun)
    /\ launched' = launched + 1
    /\ UNCHANGED <<maxresumes, cmdPc>>

diag == <<config, faults, disk, session, phase, idPc, reader, pending, ofile,
          counts>>

NextResume ==
    \/ NoResume /\ UNCHANGED <<diag, bigfile>>
    \/ NoMoreRetries /\ UNCHANGED <<diag, bigfile>>
    \/ LaunchResume /\ UNCHANGED <<diag, bigfile>>

\* a copy or resume command given by the user: -nresume and -maxresumes
\* as given or by default; no index diag is run
InitResume ==
    /\ nresume \in 0..(DefaultMaxResumes + 1)
    /\ maxresumes \in 0..DefaultMaxResumes
    /\ launched = 0
    /\ cmdPc = "running"
    /\ elapsed = 0
    /\ evt = NoEvent
    /\ bfile = NoFile /\ workers = <<>> /\ reads = <<>>
    /\ longSeen = FALSE
    /\ options = [rebuild |-> FALSE, replace |-> FALSE, tryMissing |-> FALSE]
    /\ index = <<>> /\ renamef = FALSE
    /\ corrupt = {} /\ failure = NoFailure
    /\ fs = OrigFiles /\ renamesDone = <<>>
    /\ missingDirs = {} /\ locatedDirs = EmptyMap
    /\ gotAncestry = {} /\ ancestries = EmptyMap
    /\ phase = "Start" /\ idPc = "idle"
    /\ nextBatch = 1 /\ tokens = 0 /\ running = {} /\ tube = <<>>
    /\ pending = NoPending /\ ofile = <<>>
    /\ sent = 0 /\ consumed = 0
SpecResume == InitResume /\ [][NextResume]_vars

\* a step of the chain that starts a resume command
ResumeStep ==
    launched' # launched =>
        /\ launched' = launched + 1
        /\ cmdPc = "running" /\ cmdPc' = "running"
        /\ maxresumes' = maxresumes
        /\ nresume' = CurResume(nresume, elapsed') + 1
        /\ CurResume(nresume, elapsed') < maxresumes
        /\ (nresume' = 1 /\ nresume # 0) => (elapsed' > LongRun)

\* C30: tryResume starts a resume only while the resume number it goes on
\* with is below -maxresumes, and passes that number plus one and the same
\* maximum; it goes on with 0 in the place of the number only when the
\* number is not 0 and the command ran for more than LongRun seconds;
\* so in a chain in which no command ran for more than LongRun seconds at
\* most maxresumes resumes are started.
ResumeBounded ==
    /\ [][ResumeStep]_vars
    /\ [](~longSeen => (launched <= maxresumes /\ nresume >= launched))
    /\ [](nresume <= maxresumes \/ launched = 0)
\* a chain given up after the default number of resumes, none of them
\* longer than a minute
ResumesUsedUp ==
    /\ cmdPc = "exited"
    /\ ~longSeen /\ elapsed = LongRun
    /\ maxresumes = DefaultMaxResumes
    /\ launched = maxresumes /\ nresume = maxresumes

\* ------------------------------------------------------------------------
\* The three sets of the session
\* ------------------------------------------------------------------------
\* C31: at every point of a run gotAncestry is within the keys of
\* locatedDirs and the keys of locatedDirs are within missingDirs.
GotWithinLocatedWithinMissing ==
    [](/\ gotAncestry \subseteq Keys(locatedDirs)
       /\ Keys(locatedDirs) \subseteq missingDirs)
\* Locating has ended with a handle located with its ancestry and another
\* located without
LocatedSomeWithAncestry ==
    /\ phase = "Locating" /\ idPc = "ended"
    /\ gotAncestry # {}
    /\ Keys(locatedDirs) \ gotAncestry # {}
    /\ Keys(locatedDirs) = missingDirs

\* C32: at every point of the Locating pass, whenever the batch tasks were
\* started and in whatever order their results were merged, a handle of
\* missingDirs that is a key of ancestries is in gotAncestry.
MissingWithAncestryCounted ==
    [](phase = "Locating" =>
          \A h \in missingDirs : ancestries[h] # Absent => h \in gotAncestry)
\* a batch task started after a missing handle became a key of ancestries,
\* on a multi-batch that has the handle: the task skips it
SkippedAsKnown ==
    /\ phase = "Locating"
    /\ \E t \in running : \E h \in missingDirs :
          /\ t.snap[h] # Absent
          /\ MultiBatch(index, t.id).ancestry[h] # Absent
          /\ \E g \in missingDirs \ {h} : t.snap[g] = Absent

\* ------------------------------------------------------------------------
\* Walks over a mapping with a cycle
\* ------------------------------------------------------------------------
\* C33: over every mapping, those with a cycle of parents included, the
\* walk of the Diagnosing task from each entry and fullAncestry from each
\* handle come to an end, fullAncestry with None or with a whole chain.
WalksTerminate ==
    \A i \in DOMAIN index :
        /\ ~DiagnoseHangs(MultiBatch(index, i))
        /\ \A h \in Handles :
              LET a == fullAncestry(h, MultiBatch(index, i).ancestry)
              IN  /\ ~a.hang
                  /\ a.found => /\ a.dirs[h] # Absent
                                /\ \A g \in Keys(a.dirs) :
                                      a.dirs[g] \in Keys(a.dirs) \cup {None}
\* the Locating pass at a standstill: the one batch task left is in
\* fullAncestry on a cycle and nothing else can happen
LocatingStuckOnCycle ==
    /\ phase = "Locating" /\ idPc = "loop"
    /\ running # {} /\ tube = <<>>
    /\ \A t \in running :
          LocateHangs(MultiBatch(index, t.id), missingDirs, t.snap)
    /\ ~ENABLED Next

\* ------------------------------------------------------------------------
\* Progress of a pass
\* ------------------------------------------------------------------------
\* Every batch task started delivers its result, the reader starts a task
\* whenever it holds a token and signals the end after the last task, and
\* the loop of IndexDiag.gRun takes what is in the tube.
FairPass ==
    /\ WF_vars(BatchTask)
    /\ WF_vars(Dispatch)
    /\ WF_vars(SendEndOfIndex)
    /\ WF_vars(ReceiveDiagnosed)
    /\ WF_vars(ReceiveLocated)
    /\ WF_vars(ReceiveRebuilt)
    /\ WF_vars(AppendDone)
    /\ WF_vars(ReceiveEndOfIndex)
SpecFlowFair == InitFlow /\ [][Next]_vars /\ FairPass

\* multi-batches are left, no unit is in flight and the reader has no token
Starved ==
    /\ phase \in Passes /\ idPc \in {"loop", "append"}
    /\ nextBatch <= Len(index)
    /\ InFlight = 0
    /\ tokens = 0

\* C34: when every batch task started delivers its result and the reader
\* starts a task whenever it holds a token, each pass receives EndOfIndex
\* and ends; and no pass is ever in a state with multi-batches left, no
\* unit in flight and no token.
PassesEnd ==
    /\ (phase \in Passes /\ idPc \in {"loop", "append"}) ~> (idPc = "ended")
    /\ [][idPc' = "ended" => (phase' = phase /\ ReceiveEndOfIndex)]_vars
    /\ []~Starved
\* a pass over more multi-batches than tokens waits for a result with all
\* tokens taken, and a Rebuilding pass over them has ended
WaitedForToken ==
    /\ phase = "Rebuilding" /\ idPc = "ended"
    /\ Len(index) > NumTokens
    /\ Len(RebuiltIndex) = Len(index)

\* ------------------------------------------------------------------------
\* Every result is consumed once
\* ------------------------------------------------------------------------
\* the multi-batches whose unit is running, whose result waits in the tube,
\* and whose result has been taken from the tube
IdsRunning == {t.id : t \in running}
IdsInTube == {tube[k].id : k \in ResultsInTube}
IdsConsumed == (1..(nextBatch - 1)) \ (IdsRunning \cup IdsInTube)
IdsAppended ==
    {ofile[k].id : k \in {j \in DOMAIN ofile : ofile[j].kind = "batch"}}

ResultsAccounted ==
    phase \in Passes =>
        /\ IdsRunning \cup IdsInTube \subseteq 1..(nextBatch - 1)
        /\ IdsRunning \cap IdsInTube = {}
        /\ Cardinality(IdsRunning) = Cardinality(running)
        /\ Cardinality(IdsInTube) = Cardinality(ResultsInTube)
        /\ consumed = Cardinality(IdsConsumed)
        /\ phase = "Rebuilding" =>
              /\ Len(RebuiltIndex) = Cardinality(IdsAppended)
              /\ IdsConsumed =
                    IdsAppended \cup (IF pending.kind = "batch" THEN {pending.id} ELSE {})
              /\ pending.kind = "batch" => pending.id \notin IdsAppended
        /\ idPc = "ended" =>
              /\ running = {} /\ tube = <<>> /\ pending = NoPending
              /\ IdsConsumed = DOMAIN index
              /\ consumed = Len(index)

ConsumedOnce ==
    (phase' = phase /\ consumed' # consumed) =>
        /\ consumed' = consumed + 1
        /\ ConsumesResult
        /\ Head(tube).id \notin IdsConsumed
        /\ IdsConsumed' = IdsConsumed \cup {Head(tube).id}

\* C35: when the loop of a pass is left on EndOfIndex the result of every
\* unit started in the pass has been taken from the tube exactly once,
\* and in Rebuilding appended once; no result is left in the tube and none
\* is taken twice.
NoResultLostOrTwice == []ResultsAccounted /\ [][ConsumedOnce]_vars
\* the three passes over more multi-batches than tokens have ended with
\* every result taken
AllResultsTaken ==
    /\ phase = "Rebuilding" /\ idPc = "ended"
    /\ consumed = Len(index) /\ Len(index) > NumTokens
    /\ IdsAppended = DOMAIN index
    /\ tube = <<>>

\* ------------------------------------------------------------------------
\* autoresume.py: which errors are resumed on
\* ------------------------------------------------------------------------
\* the step handles the FinishCommand event of the running command
HandlesFinish == cmdPc = "running" /\ resume' # resume

ResumeGate ==
    /\ launched' # launched =>
          /\ HandlesFinish
          /\ evt'.error \in {"EStale", "ENoent"}
          /\ \/ evt'.req = "LOOKUP" /\ evt'.onTarget
             \/ evt'.req \in modops /\ evt'.error = "EStale"
    /\ (HandlesFinish
          /\ \/ evt'.error \notin {"EStale", "ENoent"}
             \/ evt'.req \notin modops \cup {"LOOKUP"}
             \/ evt'.req = "LOOKUP" /\ ~evt'.onTarget
             \/ evt'.req \in modops /\ evt'.error = "ENoent")
         => (launched' = launched /\ cmdPc' = "exited")
    /\ cmdPc = "exited" => resume' = resume

\* C36: a resume is started only on a FinishCommand event whose error is
\* EStale or ENoent and whose request is a LOOKUP in a directory of the
\* target, or a modification request with the error EStale; for an error
\* of another class, a request that is neither, a LOOKUP elsewhere, or
\* ENoent on a modification request none is started and the command
\* exits; a command that has exited handles no further event.
ResumeGated == [][ResumeGate]_vars
\* a command given up on ENoent of a modification request though resumes
\* were left, after a resume started on ENoent of a LOOKUP on the target
GaveUpOnModopENoent ==
    /\ cmdPc = "exited"
    /\ launched = 1 /\ nresume < maxresumes
    /\ evt.error = "ENoent" /\ evt.req \in modops
    /\ elapsed < LongRun

\* ------------------------------------------------------------------------
\* bigfile.py: one file read by several workers
\* ------------------------------------------------------------------------
\* largest file size, block size and number of workers
MaxSize == 9
MaxBs == 3
MaxProc == 3

\* lines 58-60; / is the division of integers
Chunk(size, bs, nproc) == bs * ((size \div nproc) \div bs)
\* line 65
Remainder(size, chunk) == size - chunk * (size \div chunk)

\* Worker(f, offset, bs, n, remainder): the arguments, and the offset and
\* end of gRun; tail is TRUE once the read of line 124 is made
Worker(offset, bs, n, remainder) ==
    [start |-> offset, bs |-> bs, n |-> n, remainder |-> remainder,
     offset |-> offset, end |-> offset + bs * n, tail |-> FALSE]

\* lines 70-79
WorkersOf(size, bs, nproc) ==
    LET chunk == Chunk(size, bs, nproc)
        b2c == chunk \div bs
        remainder == Remainder(size, chunk)
    IN  [i \in 1..nproc |-> Worker((i - 1) * (bs * b2c), bs, b2c, 0)]
          \o (IF remainder # 0
              THEN <<Worker(nproc * (bs * b2c), bs, remainder \div bs,
                            remainder - bs * (remainder \div bs))>>
              ELSE <<>>)

\* lines 40-82: the workers are created and started
RunBigfile ==
    /\ bfile # NoFile /\ workers = <<>>
    /\ bfile.size > bfile.nproc * bfile.bs
    /\ workers' = WorkersOf(bfile.size, bfile.bs, bfile.nproc)
    /\ UNCHANGED <<bfile, reads>>

\* Read1(f, offset, count): the bytes of the file from offset on
Read1(offset, count) ==
    [k \in DOMAIN reads |->
        IF k >= offset /\ k < offset + count THEN reads[k] + 1 ELSE reads[k]]

\* lines 111-120: one turn of the loop of a worker
WorkerRead ==
    \E i \in DOMAIN workers :
        /\ workers[i].offset < workers[i].end
        /\ reads' = Read1(workers[i].offset, workers[i].bs)
        /\ workers' = [workers EXCEPT ![i].offset = @ + workers[i].bs]
        /\ UNCHANGED bfile

\* lines 122-124
WorkerReadRemainder ==
    \E i \in DOMAIN workers :
        /\ ~(workers[i].offset < workers[i].end)
        /\ workers[i].remainder # 0 /\ ~workers[i].tail
        /\ reads' = Read1(workers[i].offset, workers[i].remainder)
        /\ workers' = [workers EXCEPT ![i].tail = TRUE]
        /\ UNCHANGED bfile

NextBigfile ==
    \/ RunBigfile /\ UNCHANGED <<diag, resume>>
    \/ WorkerRead /\ UNCHANGED <<diag, resume>>
    \/ WorkerReadRemainder /\ UNCHANGED <<diag, resume>>

\* a bigfile command on a file larger than nproc blocks (line 47); no index
\* diag and no autoresume is run
InitBigfile ==
    /\ bfile \in {f \in [size : 1..MaxSize, bs : 1..MaxBs, nproc : 1..MaxProc] :
                     f.size > f.nproc * f.bs}
    /\ workers = <<>>
    /\ reads = [k \in 0..(bfile.size - 1) |-> 0]
    /\ nresume = 0 /\ maxresumes = 0 /\ launched = 0
    /\ cmdPc = "none" /\ elapsed = 0 /\ longSeen = FALSE
    /\ evt = NoEvent
    /\ options = [rebuild |-> FALSE, replace |-> FALSE, tryMissing |-> FALSE]
    /\ index = <<>> /\ renamef = FALSE
    /\ corrupt = {} /\ failure = NoFailure
    /\ fs = OrigFiles /\ renamesDone = <<>>
    /\ missingDirs = {} /\ locatedDirs = EmptyMap
    /\ gotAncestry = {} /\ ancestries = EmptyMap
    /\ phase = "Start" /\ idPc = "idle"
    /\ nextBatch = 1 /\ tokens = 0 /\ running = {} /\ tube = <<>>
    /\ pending = NoPending /\ ofile = <<>>
    /\ sent = 0 /\ consumed = 0
SpecBigfile == InitBigfile /\ [][NextBigfile]_vars

WorkersDone ==
    /\ workers # <<>>
    /\ \A i \in DOMAIN workers :
          /\ ~(workers[i].offset < workers[i].end)
          /\ workers[i].remainder # 0 => workers[i].tail

\* C37: whatever the size of the file, the block size and the number of
\* workers, with size > nproc*bs, the ranges of the workers (nproc workers
\* of b2c blocks and the worker of the remainder) are pairwise disjoint
\* and together are the bytes 0 to size-1: every byte is read once.
BytesPartitioned ==
    workers # <<>> =>
        /\ \A i, j \in DOMAIN workers :
              i # j => \A k \in DOMAIN reads :
                          ~(/\ k >= workers[i].start
                            /\ k < workers[i].start + workers[i].bs * workers[i].n
                                      + workers[i].remainder
                            /\ k >= workers[j].start
                            /\ k < workers[j].start + workers[j].bs * workers[j].n
                                      + workers[j].remainder)
        /\ \A k \in DOMAIN reads :
              \E i \in DOMAIN workers :
                  /\ k >= workers[i].start
                  /\ k < workers[i].start + workers[i].bs * workers[i].n
                            + workers[i].remainder
        /\ \A k \in DOMAIN reads : reads[k] <= 1
        /\ WorkersDone => \A k \in DOMAIN reads : reads[k] = 1
\* every worker has finished, the worker of the remainder among them, and
\* the end of the file has not been read
EndOfFileNotRead ==
    /\ WorkersDone
    /\ Len(workers) = bfile.nproc + 1
    /\ reads[bfile.size - 1] = 0
    /\ \A k \in DOMAIN reads : reads[k] <= 1

====
